---- MODULE Spec2Model ----
(***************************************************************************)
(* Model of the fat-wallet market bot: the signal history, the             *)
(* deduplication policy and the evaluation passes run by the periodic      *)
(* monitoring task and by the operator's /check and /check_force commands. *)
(*                                                                         *)
(* Time is counted in whole hours.  A price is an integer; the relative    *)
(* price change |new - old| / old * 100 >= pct is computed exactly as      *)
(* |new - old| * 100 >= pct * old (old > 0).                               *)
(*                                                                         *)
(* Scheduling follows asyncio: a coroutine runs without interruption from  *)
(* one await to the next, so one action of the model is the code between   *)
(* two awaits.                                                             *)
(*                                                                         *)
(* Spec follows the decisions of the passes, with deliveries that succeed. *)
(* SpecDedup tries the dedup decision on stored histories.  SpecCache      *)
(* follows the cache of daily bars as the days pass.  SpecLoop follows the *)
(* monitoring task under failed deliveries, errors in a pass and           *)
(* /set_interval, and SpecStore the tables under the commands and a        *)
(* restart of the process.                                                 *)
(***************************************************************************)
EXTENDS Integers, Sequences, FiniteSets, TLC

VARIABLES
    now,        \* the wall clock, in hours
    config,     \* table config: key -> value
    watchlist,  \* table watchlist: the set of tickers
    history,    \* table signal_history, in insertion (id) order
    outbox,     \* the messages handed to send_telegram_message, in order
    pc,         \* per task: where the coroutine is suspended
    task,       \* per task: the coroutine that runs check_all_stocks
    force,      \* per task: the force argument of check_all_stocks
    todo,       \* per task: the tickers the for loop has still to visit
    iter,       \* the loop iteration the last step carried out, if it was one
    cache,      \* table stock_data: rows (ticker, date, bar)
    fetched,    \* the call on the cache the last step carried out, if it was one
    merged,     \* the ticker and the hour of the last save_stock_data
    delivery,   \* what became of each message of outbox
    frame,      \* a series of daily bars, as analyze_stock gets it
    verdict,    \* what the indicators and the classification made of frame
    names,      \* table watchlist: the name of each ticker
    handled,    \* the command the last step handled, if it was one
    cancelled   \* the monitoring tasks that cancel() was called on

vars == <<now, config, watchlist, history, outbox, pc, task, force, todo, iter,
          cache, fetched, merged, delivery, frame, verdict, names, handled,
          cancelled>>

----------------------------------------------------------------------------
(* Bounds *)

MaxTime == 2      \* the clock runs from 0 to MaxTime
MaxHistory == 2   \* rows of signal_history written by the passes
MaxRows == 2      \* rows of signal_history the dedup decision is tried on

----------------------------------------------------------------------------
(* The values the inputs are drawn from *)

TickerOrder == <<"AAPL", "NVDA">>
Tickers == {TickerOrder[i] : i \in 1..Len(TickerOrder)}
Kinds == {"STRONG BUY", "STRONG SELL"}
Prices == {100, 104, 105}
BuyPrices == {100, 105}    \* 100 -> 105 is 5 percent, 105 -> 100 is less
SellPrices == {105}
CooldownValues == {0, 2}
PctValues == {5}
Procs == {"monitor", "command"}

NoSignal == [signal |-> "NONE", current_price |-> 0, rpp_score |-> 0]

RppFor(kind) == IF kind = "STRONG BUY" THEN 5 ELSE 95

\* what analyze_stock returns when it returns a signal
Signal(k, pr) == [signal |-> k, current_price |-> pr, rpp_score |-> RppFor(k)]

AllSignals == {Signal(k, pr) : k \in Kinds, pr \in Prices}

Signals ==
    {Signal("STRONG BUY", pr) : pr \in BuyPrices}
        \cup {Signal("STRONG SELL", pr) : pr \in SellPrices}

AnalysisResults == Signals \cup {NoSignal}

Abs(x) == IF x < 0 THEN -x ELSE x

\* the names init_database gives the tickers of its default watchlist
default_names == [NVDA |-> "Nvidia", AAPL |-> "Apple"]

\* no command: the last step handled none
NoUpdate == [command |-> "-", user_id |-> 0, args |-> <<>>, text |-> "-"]

----------------------------------------------------------------------------
(* database.py *)

\* get_watchlist: SELECT ticker ... ORDER BY ticker
get_watchlist(wl) ==
    SelectSeq(TickerOrder, LAMBDA t : t \in wl)

\* as last_signal_id, but the oldest row of the ticker is taken
last_signal_id_oldest(h, ticker) ==
    LET ids == {i \in 1..Len(h) : h[i].ticker = ticker}
    IN  IF ids = {} THEN 0 ELSE CHOOSE i \in ids : \A j \in ids : i <= j

\* the id of the most recent signal_history row of the ticker, 0 if none
last_signal_id(h, ticker) ==
    LET ids == {i \in 1..Len(h) : h[i].ticker = ticker}
    IN  IF ids = {} THEN 0 ELSE CHOOSE i \in ids : \A j \in ids : j <= i

\* get_last_signal: (signal_type, price, created_at) of the most recent row
get_last_signal(h, ticker) ==
    LET r == h[last_signal_id(h, ticker)]
    IN  [signal_type |-> r.signal_type, price |-> r.price,
         created_at |-> r.created_at]

Forced == [send |-> TRUE, reason |-> "forced"]
FirstSignal == [send |-> TRUE, reason |-> "first signal for ticker"]
Flipped == [send |-> TRUE, reason |-> "signal flipped"]
CooldownElapsed == [send |-> TRUE, reason |-> "cooldown elapsed"]
PriceChange == [send |-> TRUE, reason |-> "significant price change"]
Duplicate ==
    [send |-> FALSE,
     reason |-> "duplicate signal (same kind, within cooldown, price unchanged)"]

\* as should_send_signal, but a ticker without a row is treated as a duplicate
should_send_signal_no_first(h, ticker, signal_type, price, forced, cooldown, pct, t) ==
    IF forced THEN Forced
    ELSE IF last_signal_id(h, ticker) = 0 THEN Duplicate
    ELSE LET last == get_last_signal(h, ticker) IN
         IF last.signal_type # signal_type THEN Flipped
         ELSE IF cooldown > 0 /\ t - last.created_at >= cooldown THEN CooldownElapsed
         ELSE IF Abs(price - last.price) * 100 >= pct * last.price THEN PriceChange
         ELSE Duplicate

\* as should_send_signal, but the kinds are compared only after the cooldown
\* and the price, so that a flip inside the cooldown is a duplicate
should_send_signal_no_flip(h, ticker, signal_type, price, forced, cooldown, pct, t) ==
    IF forced THEN Forced
    ELSE IF last_signal_id(h, ticker) = 0 THEN FirstSignal
    ELSE LET last == get_last_signal(h, ticker) IN
         IF cooldown > 0 /\ t - last.created_at >= cooldown THEN CooldownElapsed
         ELSE IF Abs(price - last.price) * 100 >= pct * last.price THEN PriceChange
         ELSE Duplicate

\* as should_send_signal, but the price change must exceed the threshold
should_send_signal_strict(h, ticker, signal_type, price, forced, cooldown, pct, t) ==
    IF forced THEN Forced
    ELSE IF last_signal_id(h, ticker) = 0 THEN FirstSignal
    ELSE LET last == get_last_signal(h, ticker) IN
         IF last.signal_type # signal_type THEN Flipped
         ELSE IF cooldown > 0 /\ t - last.created_at >= cooldown THEN CooldownElapsed
         ELSE IF Abs(price - last.price) * 100 > pct * last.price THEN PriceChange
         ELSE Duplicate

\* as should_send_signal, but the cooldown must be exceeded, not reached
should_send_signal_late(h, ticker, signal_type, price, forced, cooldown, pct, t) ==
    IF forced THEN Forced
    ELSE IF last_signal_id(h, ticker) = 0 THEN FirstSignal
    ELSE LET last == get_last_signal(h, ticker) IN
         IF last.signal_type # signal_type THEN Flipped
         ELSE IF cooldown > 0 /\ t - last.created_at > cooldown THEN CooldownElapsed
         ELSE IF Abs(price - last.price) * 100 >= pct * last.price THEN PriceChange
         ELSE Duplicate

\* should_send_signal(ticker, signal_type, price, force) -> (bool, reason)
should_send_signal(h, ticker, signal_type, price, forced, cooldown, pct, t) ==
    IF forced THEN Forced
    ELSE IF last_signal_id(h, ticker) = 0 THEN FirstSignal
    ELSE LET last == get_last_signal(h, ticker) IN
         IF last.signal_type # signal_type THEN Flipped
         ELSE IF cooldown > 0 /\ t - last.created_at >= cooldown THEN CooldownElapsed
         ELSE IF Abs(price - last.price) * 100 >= pct * last.price THEN PriceChange
         ELSE Duplicate

\* as save_signal, but the insert is not committed before the connection
\* is closed, so the row is lost
save_signal_uncommitted(h, ticker, signal_type, price, rpp_score, t) == h

\* save_signal: INSERT INTO signal_history ...; commit
save_signal(h, ticker, signal_type, price, rpp_score, t) ==
    Append(h, [ticker |-> ticker, signal_type |-> signal_type,
               price |-> price, rpp_score |-> rpp_score, created_at |-> t])

\* set_config: INSERT OR REPLACE INTO config
\* as set_config, but with INSERT OR IGNORE: a key that is there keeps its
\* value
set_config_or_ignore(c, key, value) ==
    [k \in DOMAIN c \cup {key} |-> IF k \in DOMAIN c THEN c[k] ELSE value]

\* INSERT OR REPLACE INTO config: the key gets the value, whether it was
\* there or not
set_config(c, key, value) ==
    [k \in DOMAIN c \cup {key} |-> IF k = key THEN value ELSE c[k]]

\* no call on the cache: the last step was none
NoCall == [op |-> "-", ticker |-> "-", stale |-> FALSE, provider |-> "-",
           df |-> {}, result |-> {}, raised |-> FALSE]

\* nothing has been saved to stock_data
NoMerge == [ticker |-> "-", at |-> -1]

\* None where calculate_rpp returns a score, which is the fraction num / den
NoScore == [defined |-> FALSE, num |-> 0, den |-> 1]

\* None where a price is returned
NoPrice == [defined |-> FALSE, value |-> 0]

\* None where calculate_bollinger_bands returns the bands.  The bands of
\* the closes x[1..n] are kept exactly, as n, sum and dev: the middle band is
\* sum / n and the standard deviation is sqrt(dev / (n - 1)) / n, with sum
\* the sum of the x[i] and dev the sum of the (n * x[i] - sum)^2
NoBands == [defined |-> FALSE, n |-> 0, sum |-> 0, dev |-> 0]

\* None where analyze_stock returns an analysis
NoAnalysis == [signal |-> "NONE", current_price |-> NoPrice, rpp_score |-> NoScore,
               bands |-> NoBands, triggers |-> <<>>]

\* analyze_stock has not been called on frame
NoVerdict == [calls |-> 0, rpp |-> NoScore, price |-> NoPrice,
              bands |-> NoBands, analysis |-> NoAnalysis]

----------------------------------------------------------------------------
(* market_bot_v2.py *)

\* no iteration: the last step was not an iteration of the for loop
NoIter == [by |-> "-", ticker |-> "-", analysis |-> NoSignal,
           should_send |-> FALSE, reason |-> "-"]

Init ==
    /\ now = 0
    /\ \E cd \in CooldownValues, pct \in PctValues :
          config = [signal_cooldown_hours |-> cd, price_change_threshold |-> pct,
                    check_interval |-> 900, rpp_buy_threshold |-> 10,
                    rpp_sell_threshold |-> 90]
    /\ watchlist = Tickers
    /\ history = <<>>
    /\ outbox = <<>>
    /\ pc = [p \in Procs |-> IF p = "monitor" THEN "start" ELSE "idle"]
    /\ task = [p \in Procs |-> IF p = "monitor" THEN "monitor_stocks" ELSE "none"]
    /\ force = [p \in Procs |-> FALSE]
    /\ todo = [p \in Procs |-> <<>>]
    /\ iter = NoIter
    /\ cache = {}
    /\ fetched = NoCall
    /\ merged = NoMerge
    /\ delivery = <<>>
    /\ frame = <<>>
    /\ names = [ticker \in watchlist |-> default_names[ticker]]
    /\ handled = NoUpdate
    /\ verdict = NoVerdict
    /\ cancelled = <<>>

\* the clock advances
Tick ==
    /\ now < MaxTime
    /\ now' = now + 1
    /\ iter' = NoIter
    /\ UNCHANGED <<config, watchlist, history, outbox, pc, task, force, todo,
                   cache, fetched, merged, delivery,
                   frame, verdict, names, handled,
                   cancelled>>

\* check_all_stocks, entry: watchlist = db.get_watchlist()
enter_check_all_stocks(p, forced) ==
    /\ force' = [force EXCEPT ![p] = forced]
    /\ todo' = [todo EXCEPT ![p] = get_watchlist(watchlist)]
    /\ pc' = [pc EXCEPT ![p] = "loop"]
    /\ iter' = NoIter

\* as monitor_stocks, but without the except branch: after an exception the
\* task is over
monitor_stocks_no_except ==
    /\ pc["monitor"] \in {"start", "sleep"}
    /\ enter_check_all_stocks("monitor", FALSE)
    /\ UNCHANGED <<now, config, watchlist, history, outbox, task,
                   cache, fetched, merged, delivery,
                   frame, verdict, names, handled,
                   cancelled>>

\* monitor_stocks: while True: await check_all_stocks(bot), at the start of
\* the task, after asyncio.sleep(interval) and after the asyncio.sleep(60) of
\* the except branch
monitor_stocks ==
    /\ pc["monitor"] \in {"start", "sleep", "backoff"}
    /\ enter_check_all_stocks("monitor", FALSE)
    /\ UNCHANGED <<now, config, watchlist, history, outbox, task,
                   cache, fetched, merged, delivery,
                   frame, verdict, names, handled,
                   cancelled>>

\* cmd_check: await check_all_stocks(context.bot, force=False)
cmd_check ==
    /\ pc["command"] = "idle"
    /\ task' = [task EXCEPT !["command"] = "cmd_check"]
    /\ enter_check_all_stocks("command", FALSE)
    /\ UNCHANGED <<now, config, watchlist, history, outbox,
                   cache, fetched, merged, delivery,
                   frame, verdict, names, handled,
                   cancelled>>

\* as cmd_check_force, but force is left at its default
cmd_check_force_default ==
    /\ pc["command"] = "idle"
    /\ task' = [task EXCEPT !["command"] = "cmd_check_force"]
    /\ enter_check_all_stocks("command", FALSE)
    /\ UNCHANGED <<now, config, watchlist, history, outbox,
                   cache, fetched, merged, delivery,
                   frame, verdict, names, handled,
                   cancelled>>

\* cmd_check_force: await check_all_stocks(context.bot, force=True)
cmd_check_force ==
    /\ pc["command"] = "idle"
    /\ task' = [task EXCEPT !["command"] = "cmd_check_force"]
    /\ enter_check_all_stocks("command", TRUE)
    /\ UNCHANGED <<now, config, watchlist, history, outbox,
                   cache, fetched, merged, delivery,
                   frame, verdict, names, handled,
                   cancelled>>

\* cmd_set_cooldown with a valid argument (hours >= 0); the application
\* handles one update at a time, so no other command is in progress
cmd_set_cooldown(hours) ==
    /\ pc["command"] = "idle"
    /\ hours >= 0
    /\ config' = set_config(config, "signal_cooldown_hours", hours)
    /\ iter' = NoIter
    /\ UNCHANGED <<now, watchlist, history, outbox, pc, task, force, todo,
                   cache, fetched, merged, delivery,
                   frame, verdict, names, handled,
                   cancelled>>

\* as dedup, but the RPP score is passed where the price belongs
dedup_rpp_for_price(p, ticker, a) ==
    should_send_signal(history, ticker, a.signal, a.rpp_score, force[p],
                       config.signal_cooldown_hours,
                       config.price_change_threshold, now)

\* the call db.should_send_signal(ticker, signal, current_price, force=force)
dedup(p, ticker, a) ==
    should_send_signal(history, ticker, a.signal, a.current_price, force[p],
                       config.signal_cooldown_hours,
                       config.price_change_threshold, now)

\* as record_signal, but a forced send is not saved
record_signal_unforced(h, d, ticker, a, t) ==
    IF d.send /\ d # Forced
    THEN save_signal(h, ticker, a.signal, a.current_price, a.rpp_score, t)
    ELSE h

\* as record_signal, but the signal is saved before should_send is tested
record_signal_always(h, d, ticker, a, t) ==
    save_signal(h, ticker, a.signal, a.current_price, a.rpp_score, t)

\* if should_send: db.save_signal(ticker, signal, current_price, rpp_score)
record_signal(h, d, ticker, a, t) ==
    IF d.send
    THEN save_signal(h, ticker, a.signal, a.current_price, a.rpp_score, t)
    ELSE h

\* the message of format_signal_message, as handed to send_telegram_message;
\* basis is kept for the record: the id of the signal_history row the
\* decision read (0: there was no row, -1: forced, no row was read)
Message(p, ticker, a) ==
    [ticker |-> ticker, signal |-> a.signal, price |-> a.current_price,
     basis |-> IF force[p] THEN -1 ELSE last_signal_id(history, ticker)]

\* as emit_message, but the alert is sent outside the if
emit_message_always(ob, d, m) == Append(ob, m)

\* if should_send: await send_telegram_message(message, bot)
emit_message(ob, d, m) == IF d.send THEN Append(ob, m) ELSE ob

\* as check_ticker_of, but without the test `if analysis:`: None goes to
\* should_send_signal like a signal
check_ticker_of_unguarded(p, results) ==
    /\ pc[p] = "loop"
    /\ todo[p] # <<>>
    /\ Len(history) < MaxHistory
    /\ Len(outbox) < MaxHistory
    /\ LET ticker == Head(todo[p]) IN
       \E a \in results :
          LET d == dedup(p, ticker, a) IN
          /\ iter' = [by |-> p, ticker |-> ticker, analysis |-> a,
                      should_send |-> d.send, reason |-> d.reason]
          /\ history' = record_signal(history, d, ticker, a, now)
          /\ outbox' = emit_message(outbox, d, Message(p, ticker, a))
          /\ delivery' = emit_message(delivery, d, p)
          /\ pc' = [pc EXCEPT ![p] = IF d.send THEN "notify" ELSE "loop"]
          /\ todo' = [todo EXCEPT ![p] = Tail(todo[p])]
    /\ UNCHANGED <<now, config, watchlist, task, force,
                   cache, fetched, merged,
                   frame, verdict, names, handled,
                   cancelled>>

\* check_all_stocks, one iteration of the for loop up to its await:
\* analyze_stock, should_send_signal, save_signal, format_signal_message
\* and the call of send_telegram_message
check_ticker_of(p, results) ==
    /\ pc[p] = "loop"
    /\ todo[p] # <<>>
    /\ Len(history) < MaxHistory
    /\ Len(outbox) < MaxHistory
    /\ LET ticker == Head(todo[p]) IN
       \E a \in results :
          IF a = NoSignal
          THEN /\ iter' = [by |-> p, ticker |-> ticker, analysis |-> a,
                           should_send |-> FALSE, reason |-> "-"]
               /\ todo' = [todo EXCEPT ![p] = Tail(todo[p])]
               /\ UNCHANGED <<history, outbox, pc, delivery>>
          ELSE LET d == dedup(p, ticker, a) IN
               /\ iter' = [by |-> p, ticker |-> ticker, analysis |-> a,
                           should_send |-> d.send, reason |-> d.reason]
               /\ history' = record_signal(history, d, ticker, a, now)
               /\ outbox' = emit_message(outbox, d, Message(p, ticker, a))
               /\ delivery' = emit_message(delivery, d, p)
               /\ pc' = [pc EXCEPT ![p] = IF d.send THEN "notify" ELSE "loop"]
               /\ todo' = [todo EXCEPT ![p] = Tail(todo[p])]
    /\ UNCHANGED <<now, config, watchlist, task, force,
                   cache, fetched, merged,
                   frame, verdict, names, handled,
                   cancelled>>

\* an iteration on a ticker whose analysis is any of AnalysisResults
check_ticker(p) == check_ticker_of(p, AnalysisResults)

\* the message task p is sending ends as the outcome says
settle(dl, p, outcome) ==
    [j \in DOMAIN dl |-> IF dl[j] = p THEN outcome ELSE dl[j]]

\* as send_telegram_message, but an exception of bot.send_message is not
\* caught: it leaves check_all_stocks
send_telegram_message_raises(p, ok) ==
    /\ pc[p] = "notify"
    /\ pc' = [pc EXCEPT ![p] = IF ok THEN "loop" ELSE "backoff"]
    /\ todo' = [todo EXCEPT ![p] = IF ok THEN todo[p] ELSE <<>>]
    /\ delivery' = settle(delivery, p, IF ok THEN "sent" ELSE "failed")
    /\ iter' = NoIter
    /\ UNCHANGED <<now, config, watchlist, history, outbox, task, force,
                   cache, fetched, merged,
                   frame, verdict, names, handled,
                   cancelled>>

\* send_telegram_message: await bot.send_message(...) returns, or raises
\* and the exception is caught and printed
send_telegram_message(p, ok) ==
    /\ pc[p] = "notify"
    /\ pc' = [pc EXCEPT ![p] = "loop"]
    /\ delivery' = settle(delivery, p, IF ok THEN "sent" ELSE "failed")
    /\ iter' = NoIter
    /\ UNCHANGED <<now, config, watchlist, history, outbox, task, force, todo,
                   cache, fetched, merged,
                   frame, verdict, names, handled,
                   cancelled>>

\* check_all_stocks returns: the monitor sleeps for the interval, the
\* command replies and its handler ends
leave_check_all_stocks(p) ==
    /\ pc[p] = "loop"
    /\ todo[p] = <<>>
    /\ pc' = [pc EXCEPT ![p] = IF p = "monitor" THEN "sleep" ELSE "idle"]
    /\ task' = [task EXCEPT ![p] = IF p = "monitor" THEN task[p] ELSE "none"]
    /\ force' = [force EXCEPT ![p] = FALSE]
    /\ iter' = NoIter
    /\ UNCHANGED <<now, config, watchlist, history, outbox, todo,
                   cache, fetched, merged, delivery,
                   frame, verdict, names, handled,
                   cancelled>>

\* the deliveries of Spec succeed; a delivery that fails is followed in
\* SpecLoop
Next ==
    \/ Tick
    \/ monitor_stocks
    \/ cmd_check
    \/ cmd_check_force
    \/ \E hours \in CooldownValues : cmd_set_cooldown(hours)
    \/ \E p \in Procs : check_ticker(p)
    \/ \E p \in Procs : send_telegram_message(p, TRUE)
    \/ \E p \in Procs : leave_check_all_stocks(p)

Spec == Init /\ [][Next]_vars

----------------------------------------------------------------------------
(* The dedup decision on its own: should_send_signal applied to a stored *)
(* history, as test_deduplication.py applies it                          *)

DedupCooldowns == 0..2
DedupPcts == {1, 5, 10}

Rows ==
    [ticker : Tickers, signal_type : Kinds, price : Prices,
     rpp_score : {RppFor(k) : k \in Kinds}, created_at : 0..MaxTime]

\* the tables signal_history that hold up to MaxRows rows written up to t
Histories(t) ==
    {h \in UNION {[1..n -> Rows] : n \in 0..MaxRows} :
        /\ \A i \in 1..Len(h) :
              h[i].created_at <= t /\ h[i].rpp_score = RppFor(h[i].signal_type)
        /\ \A i \in 1..Len(h) - 1 : h[i].created_at <= h[i + 1].created_at}

InitDedup ==
    /\ now \in 0..MaxTime
    /\ \E cd \in DedupCooldowns, pct \in DedupPcts :
          config = [signal_cooldown_hours |-> cd, price_change_threshold |-> pct,
                    check_interval |-> 900, rpp_buy_threshold |-> 10,
                    rpp_sell_threshold |-> 90]
    /\ watchlist = Tickers
    /\ history \in Histories(now)
    /\ outbox = <<>>
    /\ pc = [p \in Procs |-> IF p = "monitor" THEN "sleep" ELSE "loop"]
    /\ \E forced \in BOOLEAN :
          /\ force = [p \in Procs |-> p = "command" /\ forced]
          /\ task = [p \in Procs |->
                       IF p = "monitor" THEN "monitor_stocks"
                       ELSE IF forced THEN "cmd_check_force" ELSE "cmd_check"]
    /\ todo = [p \in Procs |-> <<>>]
    /\ iter = NoIter
    /\ cache = {}
    /\ fetched = NoCall
    /\ merged = NoMerge
    /\ delivery = <<>>
    /\ frame = <<>>
    /\ names = [ticker \in watchlist |-> default_names[ticker]]
    /\ handled = NoUpdate
    /\ verdict = NoVerdict
    /\ cancelled = <<>>

\* should_send, reason = db.should_send_signal(ticker, signal, price, force)
\* on its own: nothing is saved and nothing is sent
should_send(ticker, a) ==
    /\ iter = NoIter
    /\ LET d == dedup("command", ticker, a)
       IN  iter' = [by |-> "command", ticker |-> ticker, analysis |-> a,
                    should_send |-> d.send, reason |-> d.reason]
    /\ UNCHANGED <<now, config, watchlist, history, outbox, pc, task, force, todo,
                   cache, fetched, merged, delivery,
                   frame, verdict, names, handled,
                   cancelled>>

NextDedup ==
    \E ticker \in Tickers, a \in AllSignals : should_send(ticker, a)

SpecDedup == InitDedup /\ [][NextDedup]_vars

----------------------------------------------------------------------------
(* Properties of the dedup decision, checked under SpecDedup *)

\* a decision has been made, without force
Decided == iter.by = "command" /\ ~force["command"]

\* row i is the most recent row of the ticker
IsLatest(i, ticker) ==
    /\ i \in 1..Len(history)
    /\ history[i].ticker = ticker
    /\ \A j \in (i + 1)..Len(history) : history[j].ticker # ticker

HasRow(ticker) == \E i \in 1..Len(history) : history[i].ticker = ticker

Cooldown == config.signal_cooldown_hours
Pct == config.price_change_threshold

\* the price of the decision is at least Pct percent away from the row's
PriceMoved(i) ==
    Abs(iter.analysis.current_price - history[i].price) * 100
        >= Pct * history[i].price

\* C1: a ticker without a signal record: the decision without force is to
\* send, as the first signal, for every kind, price, cooldown and threshold
C1_FirstSignalIsSent ==
    (Decided /\ ~HasRow(iter.ticker)) =>
        (iter.should_send /\ iter.reason = "first signal for ticker")

\* a first signal is sent although other tickers have rows
C1_Witness ==
    /\ Decided /\ ~HasRow(iter.ticker) /\ Len(history) = MaxRows
    /\ iter.should_send

\* C2: without force, the same kind as the most recent record, a price
\* change below the threshold and a cooldown that is 0 or has not elapsed:
\* the decision is to suppress
C2_DuplicateIsSuppressed ==
    \A i \in 1..Len(history) :
        (/\ Decided
         /\ IsLatest(i, iter.ticker)
         /\ history[i].signal_type = iter.analysis.signal
         /\ ~PriceMoved(i)
         /\ (Cooldown = 0 \/ now - history[i].created_at < Cooldown))
        => ~iter.should_send

\* the same kind at the same price in the hour of the record is suppressed
C2_Witness ==
    \E i \in 1..Len(history) :
        /\ Decided
        /\ IsLatest(i, iter.ticker)
        /\ history[i].signal_type = iter.analysis.signal
        /\ history[i].price = iter.analysis.current_price
        /\ history[i].created_at = now
        /\ Cooldown > 0
        /\ ~iter.should_send

\* C3: a kind that differs from the kind of the most recent record is
\* sent, whatever the cooldown, the elapsed time, the threshold and the price
C3_FlipIsSent ==
    \A i \in 1..Len(history) :
        (/\ iter.by = "command"
         /\ IsLatest(i, iter.ticker)
         /\ history[i].signal_type # iter.analysis.signal)
        => iter.should_send

\* a flip at the same price, in the hour of the record, with cooldown 0
C3_Witness ==
    \E i \in 1..Len(history) :
        /\ Decided
        /\ IsLatest(i, iter.ticker)
        /\ history[i].signal_type # iter.analysis.signal
        /\ history[i].price = iter.analysis.current_price
        /\ history[i].created_at = now
        /\ Cooldown = 0
        /\ iter.should_send /\ iter.reason = "signal flipped"

\* C4: the same kind and a price at least Pct percent away from the price
\* of the most recent record (equality included): the decision is to send,
\* inside the cooldown, after it and with cooldown 0
C4_PriceChangeIsSent ==
    \A i \in 1..Len(history) :
        (/\ Decided
         /\ IsLatest(i, iter.ticker)
         /\ history[i].signal_type = iter.analysis.signal
         /\ PriceMoved(i))
        => iter.should_send

\* a move of exactly Pct percent against the most recent record is sent
\* inside the cooldown, although an older record of the ticker has the new
\* price
C4_Witness ==
    \E i \in 1..Len(history), j \in 1..Len(history) :
        /\ Decided
        /\ IsLatest(i, iter.ticker)
        /\ j < i /\ history[j].ticker = iter.ticker
        /\ history[j].signal_type = iter.analysis.signal
        /\ history[j].price = iter.analysis.current_price
        /\ history[i].signal_type = iter.analysis.signal
        /\ Abs(iter.analysis.current_price - history[i].price) * 100
              = Pct * history[i].price
        /\ Cooldown > 0 /\ now - history[i].created_at < Cooldown
        /\ iter.should_send /\ iter.reason = "significant price change"

\* the history cut down to the most recent row of the ticker
OnlyLatest(ticker) ==
    SelectSeq(history, LAMBDA r :
        \E i \in 1..Len(history) : IsLatest(i, ticker) /\ history[i] = r)

\* C8: the decision is the decision on the ticker's most recent record
\* alone: rows of other tickers and older rows of the ticker do not count
C8_OnlyLatestRecordCounts ==
    iter.by = "command" =>
        LET d == should_send_signal(OnlyLatest(iter.ticker), iter.ticker,
                                    iter.analysis.signal,
                                    iter.analysis.current_price,
                                    force["command"], Cooldown, Pct, now)
        IN  iter.should_send = d.send /\ iter.reason = d.reason

\* a duplicate is suppressed although an older row of the ticker has the
\* other kind
C8_Witness ==
    /\ Decided
    /\ Len(history) >= 2
    /\ history[1].ticker = iter.ticker
    /\ IsLatest(Len(history), iter.ticker)
    /\ history[1].signal_type # iter.analysis.signal
    /\ ~iter.should_send

TypeOK ==
    /\ now \in 0..MaxTime
    /\ Len(history) <= MaxHistory
    /\ Len(outbox) = Len(history)

----------------------------------------------------------------------------
(* Properties of the evaluation passes, checked under Spec *)

\* the step is an iteration of the for loop of check_all_stocks by task p
Iteration(p) == iter'.by = p /\ todo'[p] # todo[p]

\* the iteration found a signal
Verdict == iter'.analysis # NoSignal

\* the row and the message of the signal the iteration found
NewRow ==
    [ticker |-> iter'.ticker, signal_type |-> iter'.analysis.signal,
     price |-> iter'.analysis.current_price,
     rpp_score |-> iter'.analysis.rpp_score, created_at |-> now]

\* the step appends the row of the signal and hands its message over
Sends ==
    /\ history' = Append(history, NewRow)
    /\ Len(outbox') = Len(outbox) + 1
    /\ SubSeq(outbox', 1, Len(outbox)) = outbox
    /\ outbox'[Len(outbox')].ticker = iter'.ticker
    /\ outbox'[Len(outbox')].signal = iter'.analysis.signal
    /\ outbox'[Len(outbox')].price = iter'.analysis.current_price

\* the step leaves the history alone and hands no message over
Silent == history' = history /\ outbox' = outbox

\* the signal of the iteration has the kind of row i
SameKind(i) == history[i].signal_type = iter'.analysis.signal

\* the price of the iteration is at least Pct percent away from row i's
Moved(i) ==
    Abs(iter'.analysis.current_price - history[i].price) * 100
        >= Pct * history[i].price

\* C5: with force the decision is always to send, so a pass of
\* /check_force records and notifies every ticker that has a verdict
C5_ForcedPassSendsAll ==
    [][\A p \in Procs :
          (Iteration(p) /\ task[p] = "cmd_check_force" /\ Verdict)
              => (iter'.should_send /\ Sends)]_vars

\* a forced pass has sent a signal that repeats the ticker's last record in
\* kind, price and hour
C5_Witness ==
    /\ iter.by = "command" /\ task["command"] = "cmd_check_force"
    /\ iter.should_send
    /\ Len(history) >= 2
    /\ LET n == Len(history) IN
          /\ history[n].ticker = iter.ticker
          /\ history[n - 1].ticker = iter.ticker
          /\ history[n - 1].signal_type = history[n].signal_type
          /\ history[n - 1].price = history[n].price
          /\ history[n - 1].created_at = history[n].created_at

C7_ZeroCooldownSuppresses ==
    [][\A p \in Procs, i \in 1..Len(history) :
          (/\ Iteration(p) /\ ~force[p]
           /\ Cooldown = 0
           /\ IsLatest(i, iter'.ticker)
           /\ ~(Verdict /\ (~SameKind(i) \/ Moved(i))))
          => (~iter'.should_send /\ Silent)]_vars

\* with cooldown 0 the loop has suppressed, at the last hour and at another
\* price, the kind that was recorded at hour 0
C7_Witness ==
    \E i \in 1..Len(history) :
        /\ Cooldown = 0
        /\ iter.by = "monitor" /\ iter.analysis # NoSignal
        /\ ~iter.should_send
        /\ IsLatest(i, iter.ticker)
        /\ history[i].created_at = 0 /\ now = MaxTime
        /\ history[i].price # iter.analysis.current_price

\* C9: an iteration that has a verdict appends the record of the signal
\* and hands its message over exactly when should_send_signal decides to
\* send; otherwise, and in every other step, the history and the messages
\* are unchanged
C9_RecordedAndNotifiedIffSend ==
    [][IF \E p \in Procs : Iteration(p)
       THEN LET d == should_send_signal(history, iter'.ticker,
                                        iter'.analysis.signal,
                                        iter'.analysis.current_price,
                                        force[iter'.by], Cooldown, Pct, now)
            IN  IF Verdict /\ d.send THEN Sends ELSE Silent
       ELSE Silent]_vars

\* a signal has been suppressed after an earlier one was recorded
C9_Witness ==
    /\ iter.by = "monitor" /\ iter.analysis # NoSignal
    /\ ~iter.should_send
    /\ Len(history) = 1 /\ Len(outbox) = 1
    /\ history[1].ticker = iter.ticker

\* C10: no two decisions without force to send a signal of one ticker have
\* read the same most recent record, or both no record: a first signal is
\* recorded and notified once
C10_NoTwoSendsOnOneRead ==
    \A i \in 1..Len(outbox), j \in 1..Len(outbox) :
        (/\ i < j
         /\ outbox[i].ticker = outbox[j].ticker
         /\ outbox[i].basis >= 0)
        => outbox[i].basis # outbox[j].basis

\* the /check pass has suppressed the first signal of a ticker while the
\* periodic pass is still delivering the message of that signal
C10_Witness ==
    /\ pc["monitor"] = "notify"
    /\ pc["command"] = "loop" /\ ~force["command"]
    /\ iter.by = "command" /\ iter.analysis # NoSignal
    /\ ~iter.should_send
    /\ Len(outbox) = 1
    /\ outbox[1].ticker = iter.ticker /\ outbox[1].basis = 0
    /\ outbox[1].signal = iter.analysis.signal

----------------------------------------------------------------------------
(* database.py: the cache of daily bars, table stock_data                  *)
(* A date is a whole number of days, the day the clock's hour falls in.    *)

MaxDay == 2       \* the clock of the bar cache runs over the days 0..MaxDay

HoursPerDay == 24
LookbackDays == 180

\* strftime('%Y-%m-%d') of an instant: the calendar day the hour falls in
date(t) == t \div HoursPerDay

\* strptime(d, '%Y-%m-%d'): midnight of the day
strptime(d) == d * HoursPerDay

\* open, high, low, close and volume of a bar, taken as one value
BarValues == {1, 2}

Bars(dates) == [date : dates, bar : BarValues]

\* SELECT MAX(date) FROM stock_data WHERE ticker = ?  (the empty set: None)
get_last_cached_date(c, ticker) ==
    LET dates == {r.date : r \in {x \in c : x.ticker = ticker}}
    IN  {d \in dates : \A e \in dates : e <= d}

needs_update_two_days(c, ticker, t) ==
    LET last_date == get_last_cached_date(c, ticker)
    IN  IF last_date = {} THEN TRUE
        ELSE LET last_date_obj == strptime(CHOOSE d \in last_date : TRUE)
             IN  (t - last_date_obj) \div HoursPerDay > 1

needs_update_by_oldest(c, ticker, t) ==
    LET dates == {r.date : r \in {x \in c : x.ticker = ticker}}
    IN  IF dates = {} THEN TRUE
        ELSE LET last_date_obj ==
                     strptime(CHOOSE d \in dates : \A e \in dates : d <= e)
             IN  (t - last_date_obj) \div HoursPerDay >= 1

\* (today - last_date_obj).days >= 1, last_date_obj the midnight of the
\* newest cached date
needs_update(c, ticker, t) ==
    LET last_date == get_last_cached_date(c, ticker)
    IN  IF last_date = {} THEN TRUE
        ELSE LET last_date_obj == strptime(CHOOSE d \in last_date : TRUE)
             IN  (t - last_date_obj) \div HoursPerDay >= 1

\* the bars of the ticker dated at or after the cutoff, now - 180 days
\* (the empty set: None)
get_cached_stock_data(c, ticker, t) ==
    LET cutoff_date == date(t - LookbackDays * HoursPerDay)
    IN  {[date |-> r.date, bar |-> r.bar] :
            r \in {x \in c : x.ticker = ticker /\ x.date >= cutoff_date}}

\* as save_stock_data, but with INSERT OR IGNORE: a row that is there stays
save_stock_data_or_ignore(c, ticker, df) ==
    c \cup {[ticker |-> ticker, date |-> b.date, bar |-> b.bar] :
               b \in {x \in df : \A r \in c :
                                   ~(r.ticker = ticker /\ r.date = x.date)}}

\* INSERT OR REPLACE of every row of df under UNIQUE(ticker, date)
save_stock_data(c, ticker, df) ==
    {r \in c : ~(r.ticker = ticker /\ \E b \in df : b.date = r.date)}
        \cup {[ticker |-> ticker, date |-> b.date, bar |-> b.bar] : b \in df}

----------------------------------------------------------------------------
(* market_bot_v2.py: fetch_and_cache_stock_data *)

\* what yf.Ticker(ticker).history(period='6mo') does in hour t: it returns
\* bars of the last days, returns an empty frame, or raises
Responses(t) ==
    LET recent == {d \in 0..MaxDay : date(t) - 1 <= d /\ d <= date(t)}
        series == {df \in SUBSET Bars(recent) :
                      /\ df # {}
                      /\ \A x, y \in df : x.date = y.date => x = y}
    IN  {[kind |-> "series", df |-> df] : df \in series}
            \cup {[kind |-> "series", df |-> {}], [kind |-> "raised", df |-> {}]}

\* the outcome of a call: the table afterwards, what became of the call of
\* the provider, the value returned, and whether an exception left the call
Outcome(c, provider, result) ==
    [cache |-> c, provider |-> provider, result |-> result, raised |-> FALSE]

fetch_and_cache_stock_data_always_fetch(c, ticker, t, resp) ==
    IF resp.kind = "raised"
    THEN Outcome(c, "raised", get_cached_stock_data(c, ticker, t))
    ELSE IF resp.df = {}
    THEN Outcome(c, "empty", get_cached_stock_data(c, ticker, t))
    ELSE Outcome(save_stock_data(c, ticker, resp.df), "series", resp.df)

fetch_and_cache_stock_data_reread(c, ticker, t, resp) ==
    IF ~needs_update(c, ticker, t)
    THEN Outcome(c, "not called", get_cached_stock_data(c, ticker, t))
    ELSE IF resp.kind = "raised"
    THEN Outcome(c, "raised", get_cached_stock_data(c, ticker, t))
    ELSE IF resp.df = {}
    THEN Outcome(c, "empty", get_cached_stock_data(c, ticker, t))
    ELSE Outcome(save_stock_data(c, ticker, resp.df), "series",
                 get_cached_stock_data(save_stock_data(c, ticker, resp.df),
                                       ticker, t))

fetch_and_cache_stock_data_propagates(c, ticker, t, resp) ==
    IF ~needs_update(c, ticker, t)
    THEN Outcome(c, "not called", get_cached_stock_data(c, ticker, t))
    ELSE IF resp.kind = "raised"
    THEN [Outcome(c, "raised", {}) EXCEPT !.raised = TRUE]
    ELSE IF resp.df = {}
    THEN Outcome(c, "empty", get_cached_stock_data(c, ticker, t))
    ELSE Outcome(save_stock_data(c, ticker, resp.df), "series", resp.df)

fetch_and_cache_stock_data(c, ticker, t, resp) ==
    IF ~needs_update(c, ticker, t)
    THEN Outcome(c, "not called", get_cached_stock_data(c, ticker, t))
    ELSE IF resp.kind = "raised"
    THEN Outcome(c, "raised", get_cached_stock_data(c, ticker, t))
    ELSE IF resp.df = {}
    THEN Outcome(c, "empty", get_cached_stock_data(c, ticker, t))
    ELSE Outcome(save_stock_data(c, ticker, resp.df), "series", resp.df)

----------------------------------------------------------------------------
(* The bar cache on its own: needs_update and fetch_and_cache_stock_data   *)
(* called as the days pass, as test_data_caching calls them                *)

\* the ticker that is asked for; the bars of the others lie in the table
Asked == {"AAPL"}

\* a bar that leaves the window of get_cached_stock_data after day 0
OldBars == {[ticker |-> ticker, date |-> -LookbackDays, bar |-> 1] :
               ticker \in Asked}

\* the bars of the tickers that are not asked for
OtherBars == {[ticker |-> ticker, date |-> d, bar |-> 1] :
                 ticker \in Tickers \ Asked, d \in {-LookbackDays, 0}}

InitCache ==
    /\ now = 0
    /\ config = [signal_cooldown_hours |-> 0, price_change_threshold |-> 5,
                 check_interval |-> 900, rpp_buy_threshold |-> 10,
                 rpp_sell_threshold |-> 90]
    /\ watchlist = Tickers
    /\ history = <<>>
    /\ outbox = <<>>
    /\ pc = [p \in Procs |-> "idle"]
    /\ task = [p \in Procs |-> "none"]
    /\ force = [p \in Procs |-> FALSE]
    /\ todo = [p \in Procs |-> <<>>]
    /\ iter = NoIter
    /\ \E old \in SUBSET OldBars, others \in {{}, OtherBars} :
          cache = old \cup others
    /\ fetched = NoCall
    /\ merged = NoMerge
    /\ delivery = <<>>
    /\ frame = <<>>
    /\ names = [ticker \in watchlist |-> default_names[ticker]]
    /\ handled = NoUpdate
    /\ verdict = NoVerdict
    /\ cancelled = <<>>

\* half a day passes
HalfDay ==
    /\ date(now + HoursPerDay \div 2) <= MaxDay
    /\ now' = now + HoursPerDay \div 2
    /\ fetched' = NoCall
    /\ UNCHANGED <<config, watchlist, history, outbox, pc, task, force, todo,
                   iter, cache, merged, delivery,
                   frame, verdict, names, handled,
                   cancelled>>

\* needs_update = db.needs_update(ticker)
is_stale(ticker) ==
    /\ fetched' = [NoCall EXCEPT !.op = "needs_update", !.ticker = ticker,
                                 !.stale = needs_update(cache, ticker, now)]
    /\ UNCHANGED <<now, config, watchlist, history, outbox, pc, task, force,
                   todo, iter, cache, merged, delivery,
                   frame, verdict, names, handled,
                   cancelled>>

\* df = fetch_and_cache_stock_data(ticker)
fetch(ticker) ==
    \E resp \in Responses(now) :
        LET o == fetch_and_cache_stock_data(cache, ticker, now, resp)
        IN  /\ cache' = o.cache
            /\ fetched' = [op |-> "fetch", ticker |-> ticker,
                           stale |-> o.provider # "not called",
                           provider |-> o.provider,
                           df |-> IF o.provider = "not called" THEN {}
                                  ELSE resp.df,
                           result |-> o.result,
                           raised |-> o.raised]
            /\ merged' = IF o.provider = "series"
                         THEN [ticker |-> ticker, at |-> now] ELSE merged
            /\ UNCHANGED <<now, config, watchlist, history, outbox, pc, task,
                           force, todo, iter, delivery,
                           frame, verdict, names, handled,
                   cancelled>>

NextCache ==
    \/ HalfDay
    \/ \E ticker \in Tickers : is_stale(ticker)
    \/ \E ticker \in Asked : fetch(ticker)

SpecCache == InitCache /\ [][NextCache]_vars

TypeOKCache ==
    /\ \A r \in cache : r.ticker \in Tickers /\ r.bar \in BarValues
    /\ fetched.op \in {"-", "needs_update", "fetch"}
    /\ merged.at \in -1..now

----------------------------------------------------------------------------
(* Properties of the bar cache, checked under SpecCache *)

\* the dates of the bars cached for the ticker
CachedDates(ticker) == {r.date : r \in {x \in cache : x.ticker = ticker}}

NoBar(ticker) == CachedDates(ticker) = {}

\* the most recent cached date of a ticker that has a bar
Newest(ticker) ==
    CHOOSE d \in CachedDates(ticker) : \A e \in CachedDates(ticker) : e <= d

Today == date(now)

\* needs_update has just been asked about the ticker
Asking(ticker) == fetched.op = "needs_update" /\ fetched.ticker = ticker

\* C16, as stated: needs_update answers true exactly when the ticker has no
\* cached bar or its newest cached date is more than one calendar day before
\* today, so that a newest bar dated yesterday is not stale.
C16_StaleIffOlderThanYesterday ==
    \A ticker \in Tickers :
        Asking(ticker) =>
            (fetched.stale <=> (NoBar(ticker) \/ Today - Newest(ticker) > 1))

\* C16, amended: needs_update answers true exactly when the ticker has no
\* cached bar or its newest cached date is at least one calendar day before
\* today, whatever the hour: a newest bar dated today is not stale, one
\* dated yesterday is.
C16_StaleIffBeforeToday ==
    \A ticker \in Tickers :
        Asking(ticker) =>
            (fetched.stale <=> (NoBar(ticker) \/ Today - Newest(ticker) >= 1))

\* needs_update answered true in the middle of a day for a ticker whose newest
\* bar is dated the day before
C16_Witness ==
    \E ticker \in Tickers :
        /\ Asking(ticker)
        /\ ~NoBar(ticker)
        /\ Newest(ticker) = Today - 1
        /\ now % HoursPerDay # 0
        /\ fetched.stale

\* what needs_update answers about the ticker in this state
IsStale(ticker) == needs_update(cache, ticker, now)

\* the last call fetched a series for the ticker and merged it
JustMerged(ticker) ==
    fetched.op = "fetch" /\ fetched.ticker = ticker /\ fetched.provider = "series"

\* C17: a ticker is stale as long as no bar of it has been merged; it is not
\* stale right after a merge that contains a bar dated today; and it is stale
\* again once a full day has passed since its last merge.
C17_StaleLifecycle ==
    \A ticker \in Tickers :
        /\ NoBar(ticker) => IsStale(ticker)
        /\ (JustMerged(ticker) /\ \E b \in fetched.result : b.date = Today)
              => ~IsStale(ticker)
        /\ (merged.ticker = ticker /\ now - merged.at >= HoursPerDay)
              => IsStale(ticker)

\* a bar dated the day of the merge was merged exactly a day ago, nothing
\* since, and the ticker is stale
C17_Witness ==
    \E ticker \in Tickers :
        /\ merged.ticker = ticker
        /\ now - merged.at = HoursPerDay
        /\ Newest(ticker) = date(merged.at)
        /\ IsStale(ticker)

\* the step is a call of fetch_and_cache_stock_data for the ticker
Fetching(ticker) == fetched'.op = "fetch" /\ fetched'.ticker = ticker

\* the ticker has a bar dated today
Fresh(ticker) == ~NoBar(ticker) /\ Newest(ticker) >= Today

\* C18: a call for a ticker that is not stale returns what
\* get_cached_stock_data returns, does not call the provider and leaves the
\* table as it was.
C18_FreshIsServedFromCache ==
    [][\A ticker \in Tickers :
          (Fetching(ticker) /\ Fresh(ticker)) =>
              /\ fetched'.provider = "not called"
              /\ fetched'.result = get_cached_stock_data(cache, ticker, now)
              /\ ~fetched'.raised
              /\ cache' = cache]_vars

\* a call was answered from the table, with bars, the provider not called
C18_Witness ==
    /\ fetched.op = "fetch"
    /\ fetched.provider = "not called"
    /\ \E b \in fetched.result : b.date = Today
    /\ fetched.result = get_cached_stock_data(cache, fetched.ticker, now)

\* the rows the bars of a series make for the ticker
RowsOf(ticker, df) ==
    {[ticker |-> ticker, date |-> b.date, bar |-> b.bar] : b \in df}

\* C19: a call for a stale ticker to which the provider returns bars puts
\* every one of these bars into the table and returns the series the
\* provider returned, not what the table holds.
C19_StaleIsFetchedAndMerged ==
    [][\A ticker \in Tickers :
          (Fetching(ticker) /\ ~Fresh(ticker) /\ fetched'.df # {}) =>
              /\ RowsOf(ticker, fetched'.df) \subseteq cache'
              /\ fetched'.result = fetched'.df
              /\ ~fetched'.raised]_vars

\* two fetched bars were merged and returned, and the table holds more of the
\* ticker than was returned
C19_Witness ==
    /\ fetched.op = "fetch"
    /\ Cardinality(fetched.df) = 2
    /\ fetched.result = fetched.df
    /\ RowsOf(fetched.ticker, fetched.df) \subseteq cache
    /\ fetched.result # get_cached_stock_data(cache, fetched.ticker, now)

\* C20: a call for a stale ticker to which the provider answers with an
\* exception or with an empty frame returns what get_cached_stock_data
\* returns, leaves the table as it was and raises nothing.
C20_ProviderFailureFallsBack ==
    [][\A ticker \in Tickers :
          (Fetching(ticker) /\ ~Fresh(ticker)
              /\ fetched'.provider \in {"raised", "empty"}) =>
              /\ fetched'.result = get_cached_stock_data(cache, ticker, now)
              /\ cache' = cache
              /\ ~fetched'.raised]_vars

\* the provider raised; the call returned the bars of yesterday and left out
\* a bar of the ticker that is older than the window
C20_Witness ==
    /\ fetched.op = "fetch"
    /\ fetched.provider = "raised"
    /\ ~fetched.raised
    /\ \E b \in fetched.result : b.date = Today - 1
    /\ \E r \in cache :
          /\ r.ticker = fetched.ticker
          /\ [date |-> r.date, bar |-> r.bar] \notin fetched.result

----------------------------------------------------------------------------
(* market_bot_v2.py: the periodic loop under failed deliveries, errors in  *)
(* a pass and /set_interval                                                *)

IntervalMinutes == {30}

\* an exception leaves check_all_stocks: analyze_stock, the store or
\* int(db.get_config('check_interval')) raised.  monitor_stocks catches it,
\* prints it and awaits asyncio.sleep(60)
raise_in_pass ==
    /\ pc["monitor"] = "loop"
    /\ pc' = [pc EXCEPT !["monitor"] = "backoff"]
    /\ todo' = [todo EXCEPT !["monitor"] = <<>>]
    /\ iter' = NoIter
    /\ UNCHANGED <<now, config, watchlist, history, outbox, task, force,
                   cache, fetched, merged, delivery,
                   frame, verdict, names, handled,
                   cancelled>>

\* cmd_set_interval with a valid argument, up to its await of reply_text
cmd_set_interval(minutes) ==
    /\ pc["command"] = "idle"
    /\ minutes >= 1
    /\ config' = set_config(config, "check_interval", minutes * 60)
    /\ pc' = [pc EXCEPT !["command"] = "reply"]
    /\ task' = [task EXCEPT !["command"] = "cmd_set_interval"]
    /\ iter' = NoIter
    /\ UNCHANGED <<now, watchlist, history, outbox, force, todo,
                   cache, fetched, merged, delivery,
                   frame, verdict, names, handled,
                   cancelled>>

\* cmd_set_interval after reply_text: monitor_task.cancel() and
\* create_task(monitor_stocks(bot)), unless reply_text raised.  The
\* cancelled task is at an await: CancelledError is raised there and no
\* except Exception catches it.  A message it was sending has been
\* transmitted by then, or it has not.
restart_monitor(replied, transmitted) ==
    /\ pc["command"] = "reply"
    /\ task["command"] = "cmd_set_interval"
    /\ task' = [task EXCEPT !["command"] = "none"]
    /\ iter' = NoIter
    /\ IF replied
       THEN /\ pc' = [pc EXCEPT !["command"] = "idle", !["monitor"] = "start"]
            /\ todo' = [todo EXCEPT !["monitor"] = <<>>]
            /\ delivery' = settle(delivery, "monitor",
                                  IF transmitted THEN "sent" ELSE "cancelled")
       ELSE /\ pc' = [pc EXCEPT !["command"] = "idle"]
            /\ UNCHANGED <<todo, delivery>>
    /\ UNCHANGED <<now, config, watchlist, history, outbox, force,
                   cache, fetched, merged,
                   frame, verdict, names, handled,
                   cancelled>>

InitLoop ==
    /\ now = 0
    /\ config = [signal_cooldown_hours |-> 2, price_change_threshold |-> 5,
                 check_interval |-> 900, rpp_buy_threshold |-> 10,
                 rpp_sell_threshold |-> 90]
    /\ watchlist = Tickers
    /\ history = <<>>
    /\ outbox = <<>>
    /\ pc = [p \in Procs |-> IF p = "monitor" THEN "start" ELSE "idle"]
    /\ task = [p \in Procs |-> IF p = "monitor" THEN "monitor_stocks" ELSE "none"]
    /\ force = [p \in Procs |-> FALSE]
    /\ todo = [p \in Procs |-> <<>>]
    /\ iter = NoIter
    /\ cache = {}
    /\ fetched = NoCall
    /\ merged = NoMerge
    /\ delivery = <<>>
    /\ frame = <<>>
    /\ names = [ticker \in watchlist |-> default_names[ticker]]
    /\ handled = NoUpdate
    /\ verdict = NoVerdict
    /\ cancelled = <<>>

\* the steps of the monitoring task and of /set_interval
LoopSteps ==
    \/ monitor_stocks
    \/ check_ticker("monitor")
    \/ \E ok \in BOOLEAN : send_telegram_message("monitor", ok)
    \/ leave_check_all_stocks("monitor")
    \/ raise_in_pass
    \/ \E minutes \in IntervalMinutes : cmd_set_interval(minutes)
    \/ \E replied, transmitted \in BOOLEAN : restart_monitor(replied, transmitted)

NextLoop == Tick \/ LoopSteps

SpecLoop == InitLoop /\ [][NextLoop]_vars

TypeOKLoop ==
    /\ Len(delivery) = Len(outbox)
    /\ \A j \in DOMAIN delivery :
          delivery[j] \in {"monitor", "sent", "failed", "cancelled"}
    /\ pc["monitor"] \in {"start", "loop", "notify", "sleep", "backoff"}
    /\ pc["command"] \in {"idle", "reply"}

\* the loop within one hour of the clock, the interval and the delay of the
\* except branch being shorter: the asyncio.sleep of monitor_stocks ends and
\* a created task gets to run
SpecLoopFair == InitLoop /\ [][LoopSteps]_vars /\ WF_vars(monitor_stocks)

----------------------------------------------------------------------------
(* Properties of the periodic loop, checked under SpecLoop *)

\* C11: whatever the point at which /set_interval cancels the monitoring
\* task, every signal its pass decided to send is in signal_history and its
\* message has been handed over to Telegram: none is dropped with the task.
C11_RestartLosesNoSignal ==
    \A i \in 1..Len(history) :
        /\ i <= Len(outbox)
        /\ outbox[i].ticker = history[i].ticker
        /\ outbox[i].signal = history[i].signal_type
        /\ delivery[i] # "cancelled"

\* the step is a delivery by the monitoring task that fails
DeliveryFails ==
    \E j \in DOMAIN delivery : delivery[j] = "monitor" /\ delivery'[j] = "failed"

\* C12: a delivery that fails is absorbed: the pass goes on with the tickers
\* that remain, nothing is sent again and nothing is recorded; and the pass
\* returns only when no ticker remains.
C12_FailedDeliveryDoesNotAbortPass ==
    [][/\ DeliveryFails =>
             /\ pc'["monitor"] = "loop"
             /\ todo' = todo
             /\ outbox' = outbox
             /\ history' = history
       /\ (pc["monitor"] = "loop" /\ pc'["monitor"] = "sleep") =>
             todo["monitor"] = <<>>]_vars

\* the delivery for the first ticker failed and the pass has evaluated the
\* second
C12_Witness ==
    /\ Len(outbox) = 1
    /\ outbox[1].ticker = TickerOrder[1]
    /\ delivery[1] = "failed"
    /\ iter.by = "monitor"
    /\ iter.ticker = TickerOrder[2]
    /\ history[1].created_at = now

\* the last message about the ticker, if there is one
LastMessage(j, ticker) ==
    /\ j \in DOMAIN outbox
    /\ outbox[j].ticker = ticker
    /\ \A k \in DOMAIN outbox : outbox[k].ticker = ticker => k <= j

\* C13: when the delivery of the last message about a ticker failed, the
\* next iteration of the monitoring task that finds the same signal for the
\* ticker sends it again.
C13_FailedDeliveryIsReattempted ==
    [][\A j \in DOMAIN outbox :
          (/\ Iteration("monitor")
           /\ LastMessage(j, iter'.ticker)
           /\ delivery[j] = "failed"
           /\ outbox[j].signal = iter'.analysis.signal) =>
              /\ Len(history') = Len(history) + 1
              /\ Len(outbox') = Len(outbox) + 1]_vars

\* C14: an exception that leaves a pass does not end the loop: after the
\* delay of the except branch a pass starts.
C14_ErrorDoesNotEndLoop ==
    (pc["monitor"] = "backoff") ~> (pc["monitor"] = "loop")

\* an exception left a pass that had recorded a signal
C14_Witness ==
    /\ pc["monitor"] = "backoff"
    /\ history # <<>>

----------------------------------------------------------------------------
(* The store under the commands, the passes and a restart of the process *)

\* the tickers of default_watchlist that are followed here
default_watchlist == {"NVDA", "AAPL"}

\* the tables: config, watchlist, signal_history and stock_data
Store == [config |-> config, watchlist |-> watchlist, names |-> names,
          history |-> history, cache |-> cache]

init_database_from_scratch(db) ==
    [db EXCEPT !.watchlist = default_watchlist, !.names = default_names,
               !.history = <<>>, !.cache = {}]

\* init_database on the database file of the last run: CREATE TABLE IF NOT
\* EXISTS keeps the tables, INSERT OR IGNORE keeps the config keys that are
\* there and adds the default tickers that are not
init_database(db) ==
    [db EXCEPT !.watchlist = db.watchlist \cup default_watchlist,
               !.names = [ticker \in db.watchlist \cup default_watchlist |->
                             IF ticker \in db.watchlist THEN db.names[ticker]
                             ELSE default_names[ticker]]]

\* the tickers of the table after add_to_watchlist, for a ticker in upper case
add_to_watchlist(wl, ticker) == wl \cup {ticker}

\* the names of the table after add_to_watchlist: the INSERT of a ticker
\* that is there raises IntegrityError and the row stays as it is
add_name(nm, ticker, name) ==
    [t \in DOMAIN nm \cup {ticker} |-> IF t \in DOMAIN nm THEN nm[t] ELSE name]

remove_from_watchlist(wl, ticker) == wl \ {ticker}

remove_name(nm, ticker) == [t \in DOMAIN nm \ {ticker} |-> nm[t]]

\* cmd_add by the admin with a ticker in upper case and a name
cmd_add(ticker, name) ==
    /\ pc["command"] = "idle"
    /\ watchlist' = add_to_watchlist(watchlist, ticker)
    /\ names' = add_name(names, ticker, name)
    /\ iter' = NoIter
    /\ UNCHANGED <<now, config, history, outbox, pc, task, force, todo,
                   cache, fetched, merged, delivery,
                   frame, verdict, handled,
                   cancelled>>

\* cmd_remove with a ticker
cmd_remove(ticker) ==
    /\ pc["command"] = "idle"
    /\ watchlist' = remove_from_watchlist(watchlist, ticker)
    /\ names' = remove_name(names, ticker)
    /\ iter' = NoIter
    /\ UNCHANGED <<now, config, history, outbox, pc, task, force, todo,
                   cache, fetched, merged, delivery,
                   frame, verdict, handled,
                   cancelled>>

\* the process ends, at an await of each task, and is started again:
\* post_init runs init_database and creates the monitoring task.  A message
\* that was being sent has been transmitted by then, or it has not.
post_init(transmitted) ==
    /\ LET db == init_database(Store)
       IN  /\ config' = db.config
           /\ watchlist' = db.watchlist
           /\ names' = db.names
           /\ history' = db.history
           /\ cache' = db.cache
    /\ pc' = [p \in Procs |-> IF p = "monitor" THEN "start" ELSE "idle"]
    /\ task' = [p \in Procs |-> IF p = "monitor" THEN "monitor_stocks" ELSE "none"]
    /\ force' = [p \in Procs |-> FALSE]
    /\ todo' = [p \in Procs |-> <<>>]
    /\ delivery' = LET outcome == IF transmitted THEN "sent" ELSE "cancelled"
                   IN  settle(settle(delivery, "monitor", outcome),
                              "command", outcome)
    /\ iter' = NoIter
    /\ UNCHANGED <<now, outbox, fetched, merged,
                   frame, verdict, handled,
                   cancelled>>

\* within one hour of the clock
NextStore ==
    \/ monitor_stocks
    \/ cmd_check_force
    \/ \E hours \in CooldownValues : cmd_set_cooldown(hours)
    \/ \E p \in Procs : check_ticker(p)
    \/ \E p \in Procs : send_telegram_message(p, TRUE)
    \/ \E p \in Procs : leave_check_all_stocks(p)
    \/ \E ticker \in Tickers : cmd_add(ticker, default_names[ticker])
    \/ \E ticker \in Tickers : cmd_remove(ticker)
    \/ \E transmitted \in BOOLEAN : post_init(transmitted)

SpecStore == InitLoop /\ [][NextStore]_vars

\* C15: no step takes a row out of signal_history or changes one: the rows
\* that were there are there afterwards, in their places, with their fields.
C15_HistoryIsAppendOnly ==
    [][/\ Len(history') >= Len(history)
       /\ SubSeq(history', 1, Len(history)) = history]_vars

\* a ticker with a row in signal_history was removed from the watchlist, the
\* cooldown was changed and the process was restarted
C15_Witness ==
    /\ history # <<>>
    /\ history[1].ticker \notin watchlist
    /\ config.signal_cooldown_hours # 2
    /\ pc["monitor"] = "start"

----------------------------------------------------------------------------
(* Properties of save_stock_data, checked under SpecCache *)

\* the rows of a table at the ticker and one of the dates
At(c, ticker, dates) == {r \in c : r.ticker = ticker /\ r.date \in dates}

\* no two rows of the table have the same ticker and date
UniqueKeys(c) ==
    \A r1, r2 \in c : (r1.ticker = r2.ticker /\ r1.date = r2.date) => r1 = r2

\* C21: a merge of a series for a ticker leaves at (ticker, date) of every
\* bar of the series exactly that bar, leaves every other row of the table
\* as it was, and the table never holds two rows of one ticker and date.
C21_MergeIsUpsert ==
    [][/\ UniqueKeys(cache) /\ UniqueKeys(cache')
       /\ \A ticker \in Tickers :
             (Fetching(ticker) /\ fetched'.provider = "series") =>
                 LET dates == {b.date : b \in fetched'.df}
                 IN  /\ At(cache', ticker, dates) = RowsOf(ticker, fetched'.df)
                     /\ cache' \ At(cache', ticker, dates)
                            = cache \ At(cache, ticker, dates)]_vars

\* a merge of two bars, one of them a second value for the day before, into
\* a table with an older bar of the ticker and bars of another ticker
C21_Witness ==
    /\ fetched.op = "fetch"
    /\ fetched.provider = "series"
    /\ \E b \in fetched.df : b.date = Today - 1 /\ b.bar = 2
    /\ \E b \in fetched.df : b.date = Today
    /\ At(cache, fetched.ticker, {Today - 1}) =
           {[ticker |-> fetched.ticker, date |-> Today - 1, bar |-> 2]}
    /\ \E r \in cache : r.ticker = fetched.ticker /\ r.date < Today - 1
    /\ \E r \in cache : r.ticker # fetched.ticker

----------------------------------------------------------------------------
(* market_bot_v2.py: calculate_rpp, calculate_bollinger_bands and the      *)
(* classification of analyze_stock.  A bar is (low, high, close) in whole  *)
(* numbers; a score is kept as a fraction and a band as the sums it is     *)
(* made of, so that every comparison of the code is decided exactly.       *)

MinBars == 20      \* len(df) < 20
RppWindow == 180   \* df.tail(180)
window == 20
num_std == 2

Min(S) == CHOOSE x \in S : \A y \in S : x <= y
Max(S) == CHOOSE x \in S : \A y \in S : y <= x

RECURSIVE SumOver(_, _)
SumOver(f, S) ==
    IF S = {} THEN 0
    ELSE LET i == CHOOSE x \in S : TRUE IN f[i] + SumOver(f, S \ {i})

\* df.tail(k) if len(df) >= k else df
tail(s, k) == IF Len(s) >= k THEN SubSeq(s, Len(s) - k + 1, Len(s)) ELSE s

Price(v) == [defined |-> TRUE, value |-> v]

\* as calculate_rpp, but over the whole series
calculate_rpp_whole(s) ==
    IF Len(s) < MinBars THEN [rpp |-> NoScore, price |-> NoPrice]
    ELSE LET min_price == Min({s[i].low : i \in DOMAIN s})
             max_price == Max({s[i].high : i \in DOMAIN s})
             current_price == s[Len(s)].close
         IN  IF max_price = min_price
             THEN [rpp |-> NoScore, price |-> Price(current_price)]
             ELSE [rpp |-> [defined |-> TRUE,
                            num |-> (current_price - min_price) * 100,
                            den |-> max_price - min_price],
                   price |-> Price(current_price)]

\* (rpp_score, current_price)
calculate_rpp(s) ==
    IF Len(s) < MinBars THEN [rpp |-> NoScore, price |-> NoPrice]
    ELSE LET df_180 == tail(s, RppWindow)
             min_price == Min({df_180[i].low : i \in DOMAIN df_180})
             max_price == Max({df_180[i].high : i \in DOMAIN df_180})
             current_price == df_180[Len(df_180)].close
         IN  IF max_price = min_price
             THEN [rpp |-> NoScore, price |-> Price(current_price)]
             ELSE [rpp |-> [defined |-> TRUE,
                            num |-> (current_price - min_price) * 100,
                            den |-> max_price - min_price],
                   price |-> Price(current_price)]

\* the rolling mean and the rolling (sample) standard deviation of the
\* closes, at the last bar
calculate_bollinger_bands(s) ==
    IF Len(s) < window THEN NoBands
    ELSE LET last == tail(s, window)
             sum == SumOver([i \in DOMAIN last |-> last[i].close], DOMAIN last)
             dev == SumOver([i \in DOMAIN last |->
                                (window * last[i].close - sum)
                                    * (window * last[i].close - sum)],
                            DOMAIN last)
         IN  [defined |-> TRUE, n |-> window, sum |-> sum, dev |-> dev]

\* price < lower band: n * price < sum - num_std * sqrt(dev / (n - 1))
below_lower_band(price, b) ==
    /\ b.sum - b.n * price > 0
    /\ (b.sum - b.n * price) * (b.sum - b.n * price) * (b.n - 1)
           > num_std * num_std * b.dev

\* as above_upper_band, but a price outside either band counts
above_upper_band_either(price, b) ==
    /\ b.n * price - b.sum # 0
    /\ (b.n * price - b.sum) * (b.n * price - b.sum) * (b.n - 1)
           > num_std * num_std * b.dev

\* price > upper band: n * price > sum + num_std * sqrt(dev / (n - 1))
above_upper_band(price, b) ==
    /\ b.n * price - b.sum > 0
    /\ (b.n * price - b.sum) * (b.n * price - b.sum) * (b.n - 1)
           > num_std * num_std * b.dev

\* rpp_score < threshold and rpp_score > threshold (den > 0)
score_below(r, threshold) == r.num < threshold * r.den
score_above(r, threshold) == r.num > threshold * r.den

\* the two trigger strings, in the order they are appended: each is its text
\* and the values formatted into it
BuyTriggers(r, b, rpp_buy) ==
    <<[text |-> "Price below Lower Bollinger Band", band |-> b,
       score |-> NoScore, threshold |-> 0],
      [text |-> "RPP Score <", band |-> NoBands,
       score |-> r.rpp, threshold |-> rpp_buy]>>

SellTriggers(r, b, rpp_sell) ==
    <<[text |-> "Price above Upper Bollinger Band", band |-> b,
       score |-> NoScore, threshold |-> 0],
      [text |-> "RPP Score >", band |-> NoBands,
       score |-> r.rpp, threshold |-> rpp_sell]>>

Analysis(signal, r, b, triggers) ==
    [signal |-> signal, current_price |-> r.price, rpp_score |-> r.rpp,
     bands |-> b, triggers |-> triggers]

\* as analyze_stock, but a signal that is already in signal_history is not
\* returned again
analyze_stock_once(s, rpp_buy, rpp_sell) ==
    LET r == calculate_rpp(s)
        b == calculate_bollinger_bands(s)
    IN  IF ~r.rpp.defined \/ ~b.defined \/ history # <<>> THEN NoAnalysis
        ELSE IF below_lower_band(r.price.value, b) /\ score_below(r.rpp, rpp_buy)
        THEN Analysis("STRONG BUY", r, b, BuyTriggers(r, b, rpp_buy))
        ELSE IF above_upper_band(r.price.value, b) /\ score_above(r.rpp, rpp_sell)
        THEN Analysis("STRONG SELL", r, b, SellTriggers(r, b, rpp_sell))
        ELSE NoAnalysis

\* as analyze_stock, but without the test of line 106: the comparison of
\* None with a number is a TypeError
analyze_stock_unguarded(s, rpp_buy, rpp_sell) ==
    LET r == calculate_rpp(s)
        b == calculate_bollinger_bands(s)
    IN  IF ~r.rpp.defined \/ ~b.defined
        THEN [NoAnalysis EXCEPT !.signal = "TypeError"]
        ELSE IF below_lower_band(r.price.value, b) /\ score_below(r.rpp, rpp_buy)
        THEN Analysis("STRONG BUY", r, b, BuyTriggers(r, b, rpp_buy))
        ELSE IF above_upper_band(r.price.value, b) /\ score_above(r.rpp, rpp_sell)
        THEN Analysis("STRONG SELL", r, b, SellTriggers(r, b, rpp_sell))
        ELSE NoAnalysis

\* as analyze_stock, but a score at the threshold counts as beyond it
analyze_stock_at_threshold(s, rpp_buy, rpp_sell) ==
    LET r == calculate_rpp(s)
        b == calculate_bollinger_bands(s)
    IN  IF ~r.rpp.defined \/ ~b.defined THEN NoAnalysis
        ELSE IF below_lower_band(r.price.value, b) /\ ~score_above(r.rpp, rpp_buy)
        THEN Analysis("STRONG BUY", r, b, BuyTriggers(r, b, rpp_buy))
        ELSE IF above_upper_band(r.price.value, b) /\ ~score_below(r.rpp, rpp_sell)
        THEN Analysis("STRONG SELL", r, b, SellTriggers(r, b, rpp_sell))
        ELSE NoAnalysis

\* analyze_stock from the fetched series on: None or the analysis
analyze_stock(s, rpp_buy, rpp_sell) ==
    LET r == calculate_rpp(s)
        b == calculate_bollinger_bands(s)
    IN  IF ~r.rpp.defined \/ ~b.defined THEN NoAnalysis
        ELSE IF below_lower_band(r.price.value, b) /\ score_below(r.rpp, rpp_buy)
        THEN Analysis("STRONG BUY", r, b, BuyTriggers(r, b, rpp_buy))
        ELSE IF above_upper_band(r.price.value, b) /\ score_above(r.rpp, rpp_sell)
        THEN Analysis("STRONG SELL", r, b, SellTriggers(r, b, rpp_sell))
        ELSE NoAnalysis

----------------------------------------------------------------------------
(* SpecClassify: check passes of /check over a watchlist of one ticker     *)
(* whose series is frame, analysed by analyze_stock as the code computes   *)
(* it.  The series and the thresholds are drawn in InitClassify.           *)

MaxTail == 2
MaxCalls == 2

Bar(l, h, c) == [low |-> l, high |-> h, close |-> c]

Quiet == Bar(96, 100, 98)
Flat == Bar(100, 100, 100)
Dip == Bar(80, 82, 81)
DipAtBuy == Bar(80, 82, 82)
Peak == Bar(115, 116, 115)
PeakAtSell == Bar(114, 116, 114)
Spike == Bar(70, 130, 98)
Wick == Bar(96, 400, 98)

HeadBars == {Quiet, Flat, Spike, Wick}
BaseBars == {Quiet, Flat}
TailBars == {Quiet, Flat, Dip, DipAtBuy, Peak, PeakAtSell}
Lengths == {MinBars - 1, MinBars, MinBars + 1, RppWindow, RppWindow + 1}
Thresholds == {[buy |-> 10, sell |-> 90], [buy |-> 3, sell |-> 97]}

\* the series of len bars: head, then base, then the bars of last
Series(len, head, base, last) ==
    [i \in 1..len |->
        IF i > len - Len(last) THEN last[i - (len - Len(last))]
        ELSE IF i = 1 THEN head ELSE base]

Frames ==
    {Series(len, head, base, last) :
        len \in Lengths, head \in HeadBars, base \in BaseBars,
        last \in [1..MaxTail -> TailBars]}

Watched == {"AAPL"}

InitClassify ==
    /\ now = 0
    /\ \E th \in Thresholds :
          config = [signal_cooldown_hours |-> 2, price_change_threshold |-> 5,
                    check_interval |-> 900, rpp_buy_threshold |-> th.buy,
                    rpp_sell_threshold |-> th.sell]
    /\ watchlist = Watched
    /\ history = <<>>
    /\ outbox = <<>>
    /\ pc = [p \in Procs |-> "idle"]
    /\ task = [p \in Procs |-> "none"]
    /\ force = [p \in Procs |-> FALSE]
    /\ todo = [p \in Procs |-> <<>>]
    /\ iter = NoIter
    /\ cache = {}
    /\ fetched = NoCall
    /\ merged = NoMerge
    /\ delivery = <<>>
    /\ frame \in Frames
    /\ names = [ticker \in watchlist |-> default_names[ticker]]
    /\ handled = NoUpdate
    /\ verdict = NoVerdict
    /\ cancelled = <<>>

\* /check, while the series may still be analysed
cmd_check_frame ==
    /\ verdict.calls < MaxCalls
    /\ cmd_check

\* the result of analyze_stock as check_all_stocks reads it
Reported(a) ==
    [signal |-> a.signal, current_price |-> a.current_price.value,
     rpp_score |-> a.rpp_score]

\* one iteration of check_all_stocks, from result = analyze_stock(ticker) to
\* the await of send_telegram_message
analyze_ticker(p) ==
    /\ pc[p] = "loop"
    /\ todo[p] # <<>>
    /\ Len(history) < MaxHistory
    /\ Len(outbox) < MaxHistory
    /\ LET ticker == Head(todo[p])
           rpp_buy == config.rpp_buy_threshold
           rpp_sell == config.rpp_sell_threshold
           result == analyze_stock(frame, rpp_buy, rpp_sell)
           r == calculate_rpp(frame)
       IN  /\ verdict' = [calls |-> verdict.calls + 1,
                          rpp |-> r.rpp,
                          price |-> r.price,
                          bands |-> calculate_bollinger_bands(frame),
                          analysis |-> result]
           /\ todo' = [todo EXCEPT ![p] = Tail(todo[p])]
           /\ IF result = NoAnalysis
              THEN /\ iter' = [by |-> p, ticker |-> ticker, analysis |-> NoSignal,
                               should_send |-> FALSE, reason |-> "-"]
                   /\ UNCHANGED <<history, outbox, pc, delivery>>
              ELSE LET a == Reported(result)
                       d == dedup(p, ticker, a)
                   IN  /\ iter' = [by |-> p, ticker |-> ticker, analysis |-> a,
                                   should_send |-> d.send, reason |-> d.reason]
                       /\ history' = record_signal(history, d, ticker, a, now)
                       /\ outbox' = emit_message(outbox, d, Message(p, ticker, a))
                       /\ delivery' = emit_message(delivery, d, p)
                       /\ pc' = [pc EXCEPT ![p] = IF d.send THEN "notify" ELSE "loop"]
    /\ UNCHANGED <<now, config, watchlist, task, force,
                   cache, fetched, merged, frame, names, handled,
                   cancelled>>

NextClassify ==
    \/ cmd_check_frame
    \/ analyze_ticker("command")
    \/ send_telegram_message("command", TRUE)
    \/ leave_check_all_stocks("command")

SpecClassify == InitClassify /\ [][NextClassify]_vars

\* the verdict is what the indicators and the classification return
TypeOKClassify ==
    /\ verdict.calls \in 0..MaxCalls
    /\ verdict.analysis.signal \in Kinds \cup {"NONE"}
    /\ Len(history) <= 1

----------------------------------------------------------------------------
(* The classification claims, stated on the series itself: the indicators  *)
(* are written out again from their definitions, the variance as           *)
(* (n * Q - S^2) / (n * (n - 1)) with S the sum and Q the sum of squares.  *)

Analysed == verdict.calls > 0

\* the bars the score looks at, and the closes the bands look at
ScoreBars ==
    (IF Len(frame) > RppWindow THEN Len(frame) - RppWindow + 1 ELSE 1)..Len(frame)
BandBars ==
    (IF Len(frame) > window THEN Len(frame) - window + 1 ELSE 1)..Len(frame)

LastClose == frame[Len(frame)].close
MinLow == Min({frame[i].low : i \in ScoreBars})
MaxHigh == Max({frame[i].high : i \in ScoreBars})
S1 == SumOver([i \in BandBars |-> frame[i].close], BandBars)
S2 == SumOver([i \in BandBars |-> frame[i].close * frame[i].close], BandBars)

EnoughBars == Len(frame) >= MinBars
RppDefined == EnoughBars /\ MaxHigh # MinLow
BandsDefined == Len(frame) >= window

\* RPP < pct and RPP > pct, for RPP = 100 * (LastClose - MinLow) / (MaxHigh - MinLow)
RppBelow(pct) ==
    LET lowest == MinLow
    IN  100 * (LastClose - lowest) < pct * (MaxHigh - lowest)
RppAbove(pct) ==
    LET lowest == MinLow
    IN  100 * (LastClose - lowest) > pct * (MaxHigh - lowest)

\* four variances, times (n * (n - 1))^2 / (n - 1)
FourVar == LET s1 == S1 IN num_std * num_std * window * (window * S2 - s1 * s1)

\* LastClose < S1 / n - 2 * std and LastClose > S1 / n + 2 * std
BelowLowerBand ==
    LET gap == S1 - window * LastClose
    IN  gap > 0 /\ gap * gap * (window - 1) > FourVar
AboveUpperBand ==
    LET gap == window * LastClose - S1
    IN  gap > 0 /\ gap * gap * (window - 1) > FourVar

IsBuy == RppDefined /\ BandsDefined /\ BelowLowerBand /\ RppBelow(config.rpp_buy_threshold)
IsSell == RppDefined /\ BandsDefined /\ AboveUpperBand /\ RppAbove(config.rpp_sell_threshold)

\* C22: once the series is analysed the verdict is a strong buy exactly when
\* the last close is strictly below the lower band and the score strictly
\* below the buy threshold, a strong sell exactly when the last close is
\* strictly above the upper band and the score strictly above the sell
\* threshold, and none in every other case
C22_VerdictByStrictComparisons ==
    Analysed =>
        LET buy == IsBuy
            sell == IsSell
        IN  /\ verdict.analysis.signal = "STRONG BUY" <=> buy
            /\ verdict.analysis.signal = "STRONG SELL" <=> sell
            /\ verdict.analysis.signal = "NONE" <=> (~buy /\ ~sell)

\* a strong buy, and a series that is below the lower band with its score
\* exactly at the buy threshold
C22_Witness ==
    /\ Analysed
    /\ verdict.analysis.signal = "STRONG BUY"
    /\ IsBuy

C22_AtBuyThreshold ==
    /\ Analysed
    /\ RppDefined /\ BandsDefined /\ BelowLowerBand
    /\ ~RppBelow(config.rpp_buy_threshold) /\ ~RppAbove(config.rpp_buy_threshold)
    /\ verdict.analysis.signal = "NONE"

C22_AtSellThreshold ==
    /\ Analysed
    /\ RppDefined /\ BandsDefined /\ AboveUpperBand
    /\ ~RppBelow(config.rpp_sell_threshold) /\ ~RppAbove(config.rpp_sell_threshold)
    /\ verdict.analysis.signal = "NONE"

C22_SellReached ==
    /\ Analysed
    /\ verdict.analysis.signal = "STRONG SELL"

C22_AtBand ==
    /\ Analysed
    /\ RppDefined /\ BandsDefined
    /\ window * LastClose = S1 /\ FourVar = 0
    /\ RppBelow(config.rpp_buy_threshold)

\* the step is an analysis of the series
Analysing == verdict'.calls = verdict.calls + 1

\* C23: when the score or the bands are undefined, because the series has
\* fewer than 20 bars or because its highest high equals its lowest low, the
\* analysis returns None, the pass goes on with the next ticker, and neither
\* a row of signal_history nor a message is added
C23_UndefinedIndicatorsGiveNoSignal ==
    [][(Analysing /\ (~RppDefined \/ ~BandsDefined)) =>
          /\ verdict'.analysis = NoAnalysis
          /\ ~verdict'.rpp.defined
          /\ history' = history
          /\ outbox' = outbox
          /\ pc' = pc
          /\ todo'["command"] = Tail(todo["command"])]_vars

\* a series of 20 bars or more whose highs and lows are all equal has been
\* analysed: the price is reported, the score is not, nothing is recorded
C23_Witness ==
    /\ Analysed
    /\ iter.by = "command"
    /\ EnoughBars /\ MaxHigh = MinLow
    /\ verdict.price = Price(LastClose)
    /\ verdict.bands.defined
    /\ verdict.analysis = NoAnalysis
    /\ history = <<>>

\* a series of 19 bars has been analysed
C23_ShortSeries ==
    /\ Analysed
    /\ iter.by = "command"
    /\ ~EnoughBars
    /\ ~verdict.price.defined /\ ~verdict.bands.defined
    /\ verdict.analysis = NoAnalysis
    /\ history = <<>>

C25_ScoreOverTrailingWindow ==
    Analysed =>
        LET lowest == MinLow
            highest == MaxHigh
        IN  /\ ~EnoughBars => (verdict.rpp = NoScore /\ verdict.price = NoPrice)
            /\ (EnoughBars /\ highest = lowest) =>
                  (verdict.rpp = NoScore /\ verdict.price = Price(LastClose))
            /\ (EnoughBars /\ highest # lowest) =>
                  /\ verdict.rpp.defined
                  /\ verdict.rpp.den > 0
                  /\ verdict.rpp.num * (highest - lowest)
                         = 100 * (LastClose - lowest) * verdict.rpp.den
                  /\ verdict.price = Price(LastClose)

\* a series of 181 bars has been scored whose first bar, outside the
\* window, is lower and higher than every bar inside it
C25_Witness ==
    /\ Analysed
    /\ Len(frame) = RppWindow + 1
    /\ frame[1].low < MinLow /\ frame[1].high > MaxHigh
    /\ verdict.rpp.defined
    /\ verdict.price = Price(LastClose)

\* a series of 180 bars has been scored whose first bar is its lowest
C25_WindowIsFull ==
    /\ Analysed
    /\ Len(frame) = RppWindow
    /\ MinLow = frame[1].low
    /\ \A i \in 2..Len(frame) : frame[i].low > MinLow
    /\ verdict.rpp.defined

----------------------------------------------------------------------------
(* market_bot_v2.py: the command handlers, from the admin check on, with   *)
(* the arguments as the user typed them.  SpecAdmin starts from the store  *)
(* init_database creates; config values are the strings the table holds.   *)

None == "(None)"

\* ('admin_user_id', '1937651844')
AdminId == 1937651844
Users == {AdminId, AdminId + 1}

Digits == <<"0", "1", "2", "3", "4", "5", "6", "7", "8", "9">>

\* str(n) of an int n >= 0
RECURSIVE str(_)
str(n) == IF n < 10 THEN Digits[n + 1] ELSE str(n \div 10) \o Digits[(n % 10) + 1]

\* what a user types as an argument
NumberArgs == {"0", "5", "30", "95", "101", "-1"}
TickerArgs == {"aapl"}
NameArgs == {"Apple Inc"}

NumberOf(arg) ==
    CASE arg = "0" -> 0 [] arg = "5" -> 5 [] arg = "30" -> 30
      [] arg = "95" -> 95 [] arg = "101" -> 101 [] arg = "-1" -> -1

\* int(arg): the number, or ValueError
int(arg) ==
    IF arg \in NumberArgs THEN [ok |-> TRUE, value |-> NumberOf(arg)]
    ELSE [ok |-> FALSE, value |-> 0]

\* float(arg): the number, nan for "nan", or ValueError
float(arg) ==
    IF arg \in NumberArgs THEN [ok |-> TRUE, nan |-> FALSE, value |-> NumberOf(arg)]
    ELSE IF arg = "nan" THEN [ok |-> TRUE, nan |-> TRUE, value |-> 0]
    ELSE [ok |-> FALSE, nan |-> FALSE, value |-> 0]

\* str(x) of a float x >= 0 with a whole value, or of nan
str_float(x) == IF x.nan THEN "nan" ELSE str(x.value) \o ".0"

\* x < y and x > y for a float x: both are false for nan
less(x, y) == ~x.nan /\ x.value < y
greater(x, y) == ~x.nan /\ x.value > y

\* arg.upper()
upper(arg) ==
    CASE arg = "aapl" -> "AAPL" [] arg = "AAPL" -> "AAPL"
      [] arg = "nvda" -> "NVDA" [] arg = "NVDA" -> "NVDA"

\* the value of the key, None when the key is not there
get_config(c, key) == IF key \in DOMAIN c THEN c[key] ELSE None

\* as is_admin, but every user is the admin
is_admin_anyone(c, user_id) == TRUE

is_admin(c, user_id) == str(user_id) = get_config(c, "admin_user_id")

\* the store after init_database on no database file
default_config ==
    [check_interval |-> "900", rpp_buy_threshold |-> "10",
     rpp_sell_threshold |-> "90", admin_user_id |-> str(AdminId)]

InitAdmin ==
    /\ now = 0
    /\ config = default_config
    /\ watchlist = default_watchlist
    /\ names = default_names
    /\ history = <<>>
    /\ outbox = <<>>
    /\ pc = [p \in Procs |-> IF p = "monitor" THEN "start" ELSE "idle"]
    /\ task = [p \in Procs |-> IF p = "monitor" THEN "monitor_stocks" ELSE "none"]
    /\ force = [p \in Procs |-> FALSE]
    /\ todo = [p \in Procs |-> <<>>]
    /\ iter = NoIter
    /\ cache = {}
    /\ fetched = NoCall
    /\ merged = NoMerge
    /\ delivery = <<>>
    /\ frame = <<>>
    /\ verdict = NoVerdict
    /\ handled = NoUpdate
    /\ cancelled = <<>>

Update(command, user_id, args, text) ==
    [command |-> command, user_id |-> user_id, args |-> args, text |-> text]

\* a handler that starts no pass and no restart: the application handles
\* one update at a time, the handler runs to its end
handle(command, user_id, args, text, c, wl, nm) ==
    /\ pc["command"] = "idle"
    /\ handled' = Update(command, user_id, args, text)
    /\ config' = c
    /\ watchlist' = wl
    /\ names' = nm
    /\ iter' = NoIter
    /\ UNCHANGED <<now, history, outbox, pc, task, force, todo,
                   cache, fetched, merged, delivery, frame, verdict, cancelled>>

\* if not is_admin(update.effective_user.id): return
ignore(command, user_id, args) ==
    handle(command, user_id, args, "-", config, watchlist, names)

reply_text(command, user_id, args, text) ==
    handle(command, user_id, args, text, config, watchlist, names)

\* as add, but the row of a ticker that is there is replaced
add_or_replace(user_id, args) ==
    IF ~is_admin(config, user_id) THEN ignore("add", user_id, args)
    ELSE IF Len(args) < 1
    THEN reply_text("add", user_id, args, "Usage: /add TICKER [NAME]")
    ELSE LET ticker == upper(args[1])
             name == IF Len(args) > 1 THEN args[2] ELSE None
         IN  handle("add", user_id, args, "Added to watchlist", config,
                    add_to_watchlist(watchlist, upper(ticker)),
                    [t \in watchlist \cup {upper(ticker)} |->
                        IF t = upper(ticker) THEN name ELSE names[t]])

\* cmd_add
add(user_id, args) ==
    IF ~is_admin(config, user_id) THEN ignore("add", user_id, args)
    ELSE IF Len(args) < 1
    THEN reply_text("add", user_id, args, "Usage: /add TICKER [NAME]")
    ELSE LET ticker == upper(args[1])
             name == IF Len(args) > 1 THEN args[2] ELSE None
         IN  IF upper(ticker) \notin watchlist
             THEN handle("add", user_id, args, "Added to watchlist", config,
                         add_to_watchlist(watchlist, upper(ticker)),
                         add_name(names, upper(ticker), name))
             ELSE reply_text("add", user_id, args, "is already in the watchlist")

\* cmd_remove
remove(user_id, args) ==
    IF ~is_admin(config, user_id) THEN ignore("remove", user_id, args)
    ELSE IF Len(args) # 1
    THEN reply_text("remove", user_id, args, "Usage: /remove TICKER")
    ELSE LET ticker == upper(args[1])
         IN  IF upper(ticker) \in watchlist
             THEN handle("remove", user_id, args, "Removed from watchlist", config,
                         remove_from_watchlist(watchlist, upper(ticker)),
                         remove_name(names, upper(ticker)))
             ELSE reply_text("remove", user_id, args, "not found in watchlist")

\* cmd_set_buy and cmd_set_sell, for the key each writes
set_threshold(command, key, user_id, args) ==
    IF ~is_admin(config, user_id) THEN ignore(command, user_id, args)
    ELSE IF Len(args) # 1
    THEN reply_text(command, user_id, args, "Usage")
    ELSE LET threshold == float(args[1])
         IN  IF ~threshold.ok \/ less(threshold, 0) \/ greater(threshold, 100)
             THEN reply_text(command, user_id, args,
                             "Please provide a valid percentage (0-100)")
             ELSE handle(command, user_id, args, "threshold updated",
                         set_config(config, key, str_float(threshold)),
                         watchlist, names)

set_buy(user_id, args) == set_threshold("set_buy", "rpp_buy_threshold", user_id, args)

set_sell(user_id, args) == set_threshold("set_sell", "rpp_sell_threshold", user_id, args)

\* cmd_set_cooldown
set_cooldown(user_id, args) ==
    IF ~is_admin(config, user_id) THEN ignore("set_cooldown", user_id, args)
    ELSE IF Len(args) # 1
    THEN reply_text("set_cooldown", user_id, args, "Usage: /set_cooldown HOURS")
    ELSE LET hours == float(args[1])
         IN  IF ~hours.ok \/ less(hours, 0)
             THEN reply_text("set_cooldown", user_id, args,
                             "Please provide a valid number of hours (0 or greater)")
             ELSE handle("set_cooldown", user_id, args,
                         IF ~hours.nan /\ hours.value = 0 THEN "Cooldown disabled"
                         ELSE "Signal cooldown updated",
                         set_config(config, "signal_cooldown_hours", str_float(hours)),
                         watchlist, names)

\* cmd_set_interval, up to the await of the reply that the interval is
\* updated; restart_monitor is what follows it
set_interval(user_id, args) ==
    IF ~is_admin(config, user_id) THEN ignore("set_interval", user_id, args)
    ELSE IF Len(args) # 1
    THEN reply_text("set_interval", user_id, args, "Usage: /set_interval MINUTES")
    ELSE LET minutes == int(args[1])
         IN  IF ~minutes.ok \/ minutes.value < 1
             THEN reply_text("set_interval", user_id, args,
                             "Please provide a valid number of minutes")
             ELSE /\ pc["command"] = "idle"
                  /\ handled' = Update("set_interval", user_id, args,
                                       "Check interval updated")
                  /\ config' = set_config(config, "check_interval",
                                          str(minutes.value * 60))
                  /\ pc' = [pc EXCEPT !["command"] = "reply"]
                  /\ task' = [task EXCEPT !["command"] = "cmd_set_interval"]
                  /\ iter' = NoIter
                  /\ UNCHANGED <<now, watchlist, names, history, outbox, force,
                                 todo, cache, fetched, merged, delivery,
                                 frame, verdict, cancelled>>

\* cmd_check and cmd_check_force, up to the first await inside
\* check_all_stocks
check_of(command, forced, user_id) ==
    IF ~is_admin(config, user_id) THEN ignore(command, user_id, <<>>)
    ELSE /\ pc["command"] = "idle"
         /\ handled' = Update(command, user_id, <<>>, "Running check")
         /\ task' = [task EXCEPT !["command"] = "cmd_" \o command]
         /\ enter_check_all_stocks("command", forced)
         /\ UNCHANGED <<now, config, watchlist, names, history, outbox,
                        cache, fetched, merged, delivery, frame, verdict, cancelled>>

check(user_id) == check_of("check", FALSE, user_id)

check_force(user_id) == check_of("check_force", TRUE, user_id)

\* an iteration of check_all_stocks on a ticker analyze_stock has no signal
\* for
no_signal(p) == check_ticker_of(p, {NoSignal})

AddArgs == {<<>>} \cup {<<t>> : t \in TickerArgs}
              \cup {<<t, n>> : t \in TickerArgs, n \in NameArgs}
RemoveArgs == {<<"AAPL">>, <<"aapl", "nvda">>}
BuyArgs == {<<"5">>, <<"101">>, <<"abc">>, <<"nan">>}
SellArgs == {<<"95">>, <<"-1">>}
CooldownArgs == {<<"0">>, <<"-1">>}
IntervalArgs == {<<"30">>, <<"0">>, <<"abc">>}

NextAdmin ==
    \/ \E user_id \in Users, args \in AddArgs : add(user_id, args)
    \/ \E user_id \in Users, args \in RemoveArgs : remove(user_id, args)
    \/ \E user_id \in Users, args \in BuyArgs : set_buy(user_id, args)
    \/ \E user_id \in Users, args \in SellArgs : set_sell(user_id, args)
    \/ \E user_id \in Users, args \in CooldownArgs : set_cooldown(user_id, args)
    \/ \E user_id \in Users, args \in IntervalArgs : set_interval(user_id, args)
    \/ \E replied, transmitted \in BOOLEAN : restart_monitor(replied, transmitted)
    \/ \E user_id \in Users : check(user_id)
    \/ \E user_id \in Users : check_force(user_id)
    \/ monitor_stocks
    \/ \E p \in Procs : no_signal(p)
    \/ \E p \in Procs : leave_check_all_stocks(p)
    \/ \E transmitted \in BOOLEAN : post_init(transmitted)

SpecAdmin == InitAdmin /\ [][NextAdmin]_vars

TypeOKAdmin ==
    /\ watchlist \subseteq Tickers
    /\ DOMAIN names = watchlist
    /\ DOMAIN default_config \subseteq DOMAIN config
    /\ history = <<>>

----------------------------------------------------------------------------
(* The claims on the commands, checked under SpecAdmin *)

\* the step handles a command
Handles(command) == handled' # handled /\ handled'.command = command

ByAdmin == is_admin(config, handled'.user_id)

\* C26: an /add of the admin for a ticker that, in upper case, is in the
\* watchlist fails: the tickers and their names are as before and the reply
\* says so; and in every state the tickers of the watchlist are in upper
\* case, no two of them equal in upper case, each with one name
C26_DuplicateAddFails ==
    [][/\ (/\ Handles("add") /\ ByAdmin
           /\ Len(handled'.args) >= 1
           /\ upper(handled'.args[1]) \in watchlist) =>
              /\ watchlist' = watchlist
              /\ names' = names
              /\ handled'.text = "is already in the watchlist"
       /\ \A t \in watchlist' : upper(t) = t
       /\ \A t1, t2 \in watchlist' : upper(t1) = upper(t2) => t1 = t2
       /\ DOMAIN names' = watchlist']_vars

\* /add aapl with a name has failed: AAPL is there under the name it had
C26_Witness ==
    /\ handled.command = "add"
    /\ handled.user_id = AdminId
    /\ handled.args = <<"aapl", "Apple Inc">>
    /\ handled.text = "is already in the watchlist"
    /\ "AAPL" \in watchlist
    /\ names["AAPL"] = "Apple"

\* C27: a ticker that is not in the watchlist, having been removed from
\* it, comes into it only by an /add of the admin for that ticker: no other
\* step, the restart of the process included, puts it back
C27_RemovedStaysAbsent ==
    [][\A t \in Tickers :
          (t \notin watchlist /\ t \in watchlist') =>
              /\ Handles("add") /\ ByAdmin
              /\ Len(handled'.args) >= 1
              /\ upper(handled'.args[1]) = t]_vars

\* AAPL has been removed by the admin and is absent
C27_Removed ==
    /\ handled.command = "remove"
    /\ handled.text = "Removed from watchlist"
    /\ "AAPL" \notin watchlist

RequiredKeys ==
    {"check_interval", "rpp_buy_threshold", "rpp_sell_threshold",
     "signal_cooldown_hours", "price_change_threshold", "admin_user_id"}

\* C28: from init_database on, get_config of every required key gives a
\* value, and before any command has been handled signal_cooldown_hours
\* reads '24'
C28_RequiredKeysHaveValues ==
    /\ \A key \in RequiredKeys : get_config(config, key) # None
    /\ handled = NoUpdate => get_config(config, "signal_cooldown_hours") = "24"

\* the keys init_database writes have values in every state
C28_DefaultKeysHaveValues ==
    \A key \in DOMAIN default_config : get_config(config, key) # None

\* the argument is no valid value for the command: not a number, or a
\* number outside the range of the command
InvalidFor(command, arg) ==
    \/ arg \notin NumberArgs
    \/ /\ command \in {"set_buy", "set_sell"}
       /\ (NumberOf(arg) < 0 \/ NumberOf(arg) > 100)
    \/ command = "set_interval" /\ NumberOf(arg) < 1
    \/ command = "set_cooldown" /\ NumberOf(arg) < 0

SetCommands == {"set_buy", "set_sell", "set_interval", "set_cooldown"}

\* the step handles a set command of the admin with an argument from rejected
SetWith(rejected) ==
    /\ \E command \in SetCommands : Handles(command)
    /\ ByAdmin
    /\ Len(handled'.args) = 1
    /\ handled'.args[1] \in rejected

\* C29: a set command whose argument is not a number or is out of the
\* range of the command leaves the config table as it was and does not get
\* to the restart of the monitoring task
C29_InvalidWriteIsRejected ==
    [][SetWith({arg \in NumberArgs \cup {"abc", "nan"} :
                   InvalidFor(handled'.command, arg)}) =>
          /\ config' = config
          /\ pc' = pc
          /\ task' = task]_vars

\* the same for every invalid argument but "nan"
C29_InvalidButNanIsRejected ==
    [][SetWith({arg \in NumberArgs \cup {"abc"} :
                   InvalidFor(handled'.command, arg)}) =>
          /\ config' = config
          /\ pc' = pc
          /\ task' = task]_vars

\* /set_buy 101 of the admin has been answered and the threshold is as
\* init_database set it
C29_OutOfRangeRejected ==
    /\ handled.command = "set_buy"
    /\ handled.user_id = AdminId
    /\ handled.args = <<"101">>
    /\ handled.text = "Please provide a valid percentage (0-100)"
    /\ config.rpp_buy_threshold = "10"

\* C30: a command of a user who is not the admin of the config table is
\* not answered and changes nothing: the config, the watchlist and its
\* names, the bar cache and signal_history are as before, no pass is
\* started, no message is handed over and the monitoring task is not
\* restarted
C30_NonAdminChangesNothing ==
    [][(handled' # handled /\ handled'.user_id # AdminId) =>
          /\ handled'.text = "-"
          /\ UNCHANGED <<config, watchlist, names, cache, history, outbox,
                         pc, task, todo, force, delivery>>]_vars

\* /check_force of another user has been handled: no pass is under way,
\* while the admin's commands have changed the watchlist and the config
C30_Witness ==
    /\ handled.command = "check_force"
    /\ handled.user_id # AdminId
    /\ handled.text = "-"
    /\ pc["command"] = "idle"
    /\ todo["command"] = <<>>
    /\ "AAPL" \notin watchlist
    /\ config.rpp_buy_threshold = "5.0"

\* /check_force of the admin has started a pass
C30_AdminStartsPass ==
    /\ handled.command = "check_force"
    /\ handled.user_id = AdminId
    /\ pc["command"] = "loop"
    /\ force["command"]

\* the key a set command writes
KeyOf(command) ==
    CASE command = "set_buy" -> "rpp_buy_threshold"
      [] command = "set_sell" -> "rpp_sell_threshold"
      [] command = "set_cooldown" -> "signal_cooldown_hours"
      [] command = "set_interval" -> "check_interval"

\* str(v) of the value a set command writes for a valid argument: the
\* float of the argument, for /set_interval the seconds of the minutes
TextOf(command, arg) ==
    IF command = "set_interval"
    THEN CASE arg = "30" -> "1800" [] arg = "5" -> "300" [] arg = "95" -> "5700"
    ELSE CASE arg = "0" -> "0.0" [] arg = "5" -> "5.0" [] arg = "30" -> "30.0"
           [] arg = "95" -> "95.0"

\* C31: the config table only grows; the value of a key changes, or the
\* key comes into the table, only in a step that handles the set command of
\* that key; and after a set command with a valid argument get_config of
\* its key returns the text of the value written, while every other key
\* reads as before
C31_SetConfigIsUpsert ==
    [][/\ DOMAIN config \subseteq DOMAIN config'
       /\ \A key \in DOMAIN config' :
             (key \notin DOMAIN config \/ config'[key] # config[key]) =>
                 \E command \in SetCommands :
                     Handles(command) /\ ByAdmin /\ KeyOf(command) = key
       /\ SetWith({arg \in NumberArgs : ~InvalidFor(handled'.command, arg)}) =>
             /\ get_config(config', KeyOf(handled'.command))
                    = TextOf(handled'.command, handled'.args[1])
             /\ \A key \in RequiredKeys \ {KeyOf(handled'.command)} :
                   get_config(config', key) = get_config(config, key)]_vars

\* /set_cooldown 0 has put a key into the table that was not there, after
\* /set_buy 5 has replaced the value of one that was
C31_Witness ==
    /\ handled.command = "set_cooldown"
    /\ handled.args = <<"0">>
    /\ get_config(config, "signal_cooldown_hours") = "0.0"
    /\ get_config(config, "rpp_buy_threshold") = "5.0"
    /\ get_config(config, "check_interval") = "1800"
    /\ get_config(config, "price_change_threshold") = None

----------------------------------------------------------------------------
(* Further properties of the evaluation passes, checked under Spec *)

\* C32: an iteration for a ticker analyze_stock returns None for, because
\* there is no series or because the series gives no signal, asks
\* should_send_signal nothing, appends no row, hands no message over, and
\* the pass is at the next ticker of its watchlist
C32_NoVerdictIsSkipped ==
    [][\A p \in Procs :
          (Iteration(p) /\ ~Verdict) =>
              /\ iter'.reason = "-"
              /\ ~iter'.should_send
              /\ Silent
              /\ delivery' = delivery
              /\ iter'.ticker = Head(todo[p])
              /\ todo'[p] = Tail(todo[p])
              /\ pc'[p] = "loop"]_vars

\* the loop has passed the first ticker of the watchlist without a signal
\* and has the second one before it, after an earlier pass recorded a signal
C32_Witness ==
    /\ iter.by = "monitor"
    /\ iter.analysis = NoSignal
    /\ iter.ticker = TickerOrder[1]
    /\ todo["monitor"] = <<TickerOrder[2]>>
    /\ pc["monitor"] = "loop"
    /\ Len(history) = 1

----------------------------------------------------------------------------
(* Further properties of the classification, checked under SpecClassify *)

\* the verdict of a classification that tests the sell condition first
SellFirstOf(buy, sell) ==
    IF sell THEN "STRONG SELL" ELSE IF buy THEN "STRONG BUY" ELSE "NONE"

SellFirst == SellFirstOf(IsBuy, IsSell)

\* C33: for a series with bands the squared deviation under the root is not
\* negative, so the lower band is at most the middle band and that at most
\* the upper band; the close is not below the lower and above the upper
\* band at once, the buy and the sell condition do not both hold, and the
\* verdict is the one a classification testing sell first would give
C33_BuyAndSellExclude ==
    (Analysed /\ verdict.bands.defined) =>
        /\ verdict.bands.dev >= 0
        /\ FourVar >= 0
        /\ ~(/\ below_lower_band(verdict.price.value, verdict.bands)
             /\ above_upper_band(verdict.price.value, verdict.bands))
        /\ ~(BelowLowerBand /\ AboveUpperBand)
        /\ LET buy == IsBuy
               sell == IsSell
           IN  /\ ~(buy /\ sell)
               /\ verdict.analysis.signal = SellFirstOf(buy, sell)

\* a series whose closes vary has been analysed with its last close below
\* the lower band, under thresholds each of which its score meets or fails
C33_Witness ==
    /\ Analysed
    /\ verdict.bands.dev > 0
    /\ below_lower_band(verdict.price.value, verdict.bands)
    /\ ~above_upper_band(verdict.price.value, verdict.bands)
    /\ verdict.analysis.signal = "STRONG BUY"
    /\ SellFirst = "STRONG BUY"

----------------------------------------------------------------------------
(* SpecPlain: the passes of the loop and of /check only, under the         *)
(* settings drawn in Init: no forced pass and no change of the config      *)

NextPlain ==
    \/ Tick
    \/ monitor_stocks
    \/ cmd_check
    \/ \E p \in Procs : check_ticker(p)
    \/ \E p \in Procs : send_telegram_message(p, TRUE)
    \/ \E p \in Procs : leave_check_all_stocks(p)

SpecPlain == Init /\ [][NextPlain]_vars

\* rows i < j are consecutive rows of one ticker
Consecutive(i, j) ==
    /\ i < j
    /\ history[i].ticker = history[j].ticker
    /\ \A k \in (i + 1)..(j - 1) : history[k].ticker # history[i].ticker

\* C34: in signal_history as passes without force write it under fixed
\* settings, two consecutive rows of one ticker that have the same kind are
\* at least the cooldown apart, the cooldown being above 0, or the price of
\* the later differs from the price of the earlier by at least Pct percent
\* of the earlier
C34_ConsecutiveRecordsAreSpaced ==
    \A i, j \in 1..Len(history) :
        (Consecutive(i, j) /\ history[i].signal_type = history[j].signal_type) =>
            \/ /\ Cooldown > 0
               /\ history[j].created_at - history[i].created_at >= Cooldown
            \/ Abs(history[j].price - history[i].price) * 100
                   >= Pct * history[i].price

\* two rows of one ticker and one kind, written within the cooldown at
\* prices Pct percent apart
C34_Witness ==
    /\ Len(history) = 2
    /\ Consecutive(1, 2)
    /\ history[1].signal_type = history[2].signal_type
    /\ Cooldown > 0
    /\ history[2].created_at - history[1].created_at < Cooldown
    /\ history[2].price # history[1].price

\* two rows of one ticker and one kind at one price, the cooldown apart
C34_AfterCooldown ==
    /\ Len(history) = 2
    /\ Consecutive(1, 2)
    /\ history[1].signal_type = history[2].signal_type
    /\ history[2].price = history[1].price
    /\ history[2].created_at - history[1].created_at >= Cooldown

----------------------------------------------------------------------------
(* The record of a forced send, checked under Spec *)

\* row i was written by a forced pass: its message was sent without a read
\* of the history
WasForced(i) == i \in 1..Len(outbox) /\ outbox[i].basis = -1

\* the iteration finds the kind and the price of row i
Repeats(i) ==
    /\ SameKind(i)
    /\ iter'.analysis.current_price = history[i].price

\* C36: a forced send appends its row like every send, and the row is what
\* the next decision reads: an iteration without force that finds the kind
\* and the price of the ticker's most recent row, written by a forced pass,
\* is suppressed in the hour of that row and until the cooldown, counted
\* from the created_at of that row, has elapsed; from then on, the cooldown
\* being above 0, it is sent as "cooldown elapsed"
C36_ForcedRecordIsBaseline ==
    [][\A p \in Procs :
          /\ (Iteration(p) /\ force[p] /\ Verdict) =>
                /\ history' = Append(history, NewRow)
                /\ Len(outbox') = Len(history')
                /\ outbox'[Len(outbox')].basis = -1
          /\ \A i \in 1..Len(history) :
                (/\ Iteration(p) /\ ~force[p] /\ Verdict
                 /\ IsLatest(i, iter'.ticker)
                 /\ WasForced(i)
                 /\ Repeats(i)) =>
                    IF Cooldown > 0 /\ now - history[i].created_at >= Cooldown
                    THEN /\ iter'.should_send
                         /\ iter'.reason = "cooldown elapsed"
                         /\ Sends
                    ELSE /\ ~iter'.should_send
                         /\ Silent]_vars

\* the loop has suppressed a signal that repeats, in the hour of the row,
\* the row a forced pass wrote for the ticker
C36_Witness ==
    \E i \in 1..Len(history) :
        /\ iter.by = "monitor"
        /\ iter.analysis # NoSignal
        /\ ~iter.should_send
        /\ IsLatest(i, iter.ticker)
        /\ WasForced(i)
        /\ history[i].signal_type = iter.analysis.signal
        /\ history[i].price = iter.analysis.current_price
        /\ history[i].created_at = now

\* the loop has sent again the signal of a forced row, the cooldown after it
C36_AfterCooldown ==
    /\ Len(history) = 2
    /\ WasForced(1)
    /\ ~WasForced(2)
    /\ history[2].ticker = history[1].ticker
    /\ history[2].signal_type = history[1].signal_type
    /\ history[2].price = history[1].price
    /\ history[2].created_at = history[1].created_at + Cooldown
    /\ iter.by = "monitor"
    /\ iter.reason = "cooldown elapsed"

----------------------------------------------------------------------------
(* market_bot_v2.py: the monitoring tasks of the event loop.  "monitor" is *)
(* the task bot_data['monitor_task'] refers to; cancelled holds the tasks  *)
(* that cancel() was called on, with the await each was suspended at       *)

MaxRestarts == 2

\* cmd_set_interval after reply_text, when reply_text raised: the exception
\* leaves the handler before the lines that restart the task
reply_raises ==
    /\ pc["command"] = "reply"
    /\ task["command"] = "cmd_set_interval"
    /\ pc' = [pc EXCEPT !["command"] = "idle"]
    /\ task' = [task EXCEPT !["command"] = "none"]
    /\ iter' = NoIter
    /\ UNCHANGED <<now, config, watchlist, history, outbox, force, todo,
                   cache, fetched, merged, delivery,
                   frame, verdict, names, handled, cancelled>>

\* cmd_set_interval after reply_text: bot_data['monitor_task'].cancel() and
\* bot_data['monitor_task'] = create_task(monitor_stocks(bot)), with no
\* await between the two.  The handler runs while the task is suspended: it
\* has not started, or it is at the await of bot.send_message or of one of
\* the two asyncio.sleep.  cancel() only requests the cancellation; the
\* CancelledError is raised when the task is resumed.  A message the task
\* was sending has been transmitted by then, or it has not.
cancel_and_create(transmitted) ==
    /\ pc["command"] = "reply"
    /\ task["command"] = "cmd_set_interval"
    /\ pc["monitor"] # "loop"
    /\ Len(cancelled) < MaxRestarts
    /\ cancelled' = Append(cancelled, [at |-> pc["monitor"],
                                       must_cancel |-> TRUE,
                                       done |-> FALSE])
    /\ pc' = [pc EXCEPT !["command"] = "idle", !["monitor"] = "start"]
    /\ task' = [task EXCEPT !["command"] = "none"]
    /\ todo' = [todo EXCEPT !["monitor"] = <<>>]
    /\ delivery' = settle(delivery, "monitor",
                          IF transmitted THEN "sent" ELSE "cancelled")
    /\ iter' = NoIter
    /\ UNCHANGED <<now, config, watchlist, history, outbox, force,
                   cache, fetched, merged,
                   frame, verdict, names, handled>>

\* as throw_cancelled, but except Exception catches the CancelledError
\* raised inside the try of monitor_stocks or of send_telegram_message: the
\* task goes on, with asyncio.sleep(60) or with the rest of its pass
throw_cancelled_caught(t) ==
    IF t.at \in {"sleep", "notify"}
    THEN [at |-> IF t.at = "sleep" THEN "backoff" ELSE "loop",
          must_cancel |-> FALSE, done |-> FALSE]
    ELSE [at |-> t.at, must_cancel |-> FALSE, done |-> TRUE]

\* a task with a requested cancellation is resumed: CancelledError is raised
\* at its await.  It is no Exception, so neither the except Exception of
\* send_telegram_message nor that of monitor_stocks catches it; raised in
\* the asyncio.sleep(60) of the except branch it leaves the handler; a task
\* that has not started never runs its coroutine.  The task is over.
throw_cancelled(t) ==
    [at |-> t.at, must_cancel |-> FALSE, done |-> TRUE]

\* the event loop resumes task i of cancelled
resume_cancelled(i) ==
    /\ i \in DOMAIN cancelled
    /\ ~cancelled[i].done
    /\ cancelled[i].must_cancel
    /\ cancelled' = [cancelled EXCEPT ![i] = throw_cancelled(cancelled[i])]
    /\ iter' = NoIter
    /\ UNCHANGED <<now, config, watchlist, history, outbox, pc, task, force,
                   todo, cache, fetched, merged, delivery,
                   frame, verdict, names, handled>>

\* what analyze_stock returns to the monitoring task: nothing, a buy or a
\* sell
TaskResults ==
    {NoSignal, Signal("STRONG BUY", 100), Signal("STRONG SELL", 105)}

\* the steps of the monitoring tasks and of /set_interval within one hour of
\* the clock
NextTasks ==
    \/ monitor_stocks
    \/ check_ticker_of("monitor", TaskResults)
    \/ \E ok \in BOOLEAN : send_telegram_message("monitor", ok)
    \/ leave_check_all_stocks("monitor")
    \/ raise_in_pass
    \/ \E minutes \in IntervalMinutes : cmd_set_interval(minutes)
    \/ reply_raises
    \/ \E transmitted \in BOOLEAN : cancel_and_create(transmitted)
    \/ \E i \in 1..MaxRestarts : resume_cancelled(i)

SpecTasks == InitLoop /\ [][NextTasks]_vars

----------------------------------------------------------------------------
(* Properties of the monitoring tasks, checked under SpecTasks *)

\* the tasks of cancelled that can still run a step of monitor_stocks
Live == {i \in DOMAIN cancelled :
            ~cancelled[i].done /\ ~cancelled[i].must_cancel}

\* the step replaces the monitoring task
Replaces == Len(cancelled') = Len(cancelled) + 1

\* C35: after the start and any changes of the check interval one monitoring
\* loop is live, the task bot_data['monitor_task'] refers to: a task that is
\* replaced has its cancellation requested in the step that creates its
\* successor, it takes no step but the one in which CancelledError ends it,
\* wherever it was suspended, and once over it stays over.
C35_OneMonitoringLoop ==
    [][/\ Live' = {}
       /\ task'["monitor"] = "monitor_stocks"
       /\ Replaces =>
             /\ cancelled'[Len(cancelled')].must_cancel
             /\ cancelled'[Len(cancelled')].at = pc["monitor"]
             /\ pc'["monitor"] = "start"
             /\ todo'["monitor"] = <<>>
       /\ \A i \in DOMAIN cancelled :
             cancelled'[i] # cancelled[i] =>
                 /\ cancelled[i].must_cancel
                 /\ cancelled'[i].done
                 /\ cancelled'[i].at = cancelled[i].at]_vars

\* two tasks were cancelled, one in asyncio.sleep(interval) and one while it
\* was sending; both are over and the third has started a pass
C35_Witness ==
    /\ Len(cancelled) = 2
    /\ \A i \in DOMAIN cancelled : cancelled[i].done
    /\ \E i \in DOMAIN cancelled : cancelled[i].at = "sleep"
    /\ \E i \in DOMAIN cancelled : cancelled[i].at = "notify"
    /\ pc["monitor"] = "loop"

====
